---- MODULE Spec2Model ----
(***************************************************************************)
(* Verification model of the seriem-agent backend: the workspace path      *)
(* sandbox (workspace/manager.py), the proposal store and its approve and  *)
(* reject routes (proposals/store.py, proposals/routes.py), the filesystem *)
(* tools of the agent (tools/filesystem.py) and the streaming loop of the  *)
(* chat websocket (api/websocket.py).                                      *)
(*                                                                         *)
(* The specifications share the variables below:                           *)
(*   SpecSandbox  safe_path applied to bounded paths, roots and symlinks   *)
(*   Spec         disk + proposal store + tools + approve / reject         *)
(*   SpecAppend   the same with add_file_to_proposal, on one identifier    *)
(*   SpecRace     two callers of ProposalStore.remove on one identifier    *)
(*   SpecArbiter  the per-turn event loop of websocket_endpoint            *)
(*   SpecConns    the receive loops of two websocket connections           *)
(*   SpecExpiry   the store under a clock: list_pending and its sweep      *)
(*   SpecWorkspace  WorkspaceManager.select_workspace and its readers    *)
(*   SpecCommit   approve with its commit flag and the git commands      *)
(*   SpecTurn     one connection whose turn calls tools, and the routes  *)
(*   SpecOverlap  two pending proposals on one path                      *)
(*   SpecReroot   proposals across a change of the workspace root        *)
(*   SpecSteps    approve in its steps against add_file_to_proposal      *)
(*   SpecEdit     edit_file on files in which old_str occurs 0..3 times  *)
(*   SpecListing  proposals of one or two changes listed under a clock   *)
(*   SpecStats    the line statistics of creates, updates and deletes    *)
(***************************************************************************)
EXTENDS Integers, Sequences, FiniteSets, TLC

VARIABLES
    sbx,                    \* sandbox run: [root, links, path, result]
    disk,                   \* physical filesystem: absolute path -> node
    proposals,              \* ProposalStore._proposals: id -> proposal or NoProposal
    resp,                   \* response of the last tool call / route handler
    fin,                    \* history: per id, the live proposal was already written
    callers,                \* the racing callers of remove: caller -> [pc, result]
    approving,              \* approve_proposal in steps: [pc, id, i, files_affected]
    pc,                     \* websocket loop: "waiting" | "streaming" | "closed"
    tool_depth,             \* websocket_endpoint.tool_depth
    full_response,          \* websocket_endpoint.full_response
    suppressed_xml_echo,    \* websocket_endpoint.suppressed_xml_echo
    suppressing_xml_echo,   \* websocket_endpoint.suppressing_xml_echo
    last_xml_tool_output,   \* websocket_endpoint.last_xml_tool_output
    frames,                 \* frames sent to the client in the current turn
    lastEvent,              \* history: the agent event handled by the last step
    nEvents,                \* number of agent events consumed in the current turn
    dropped,                \* history: chunks of the turn skipped inside a tool
    conns,                  \* open websockets: connection -> [pc, turn]
    wire,                   \* history: frames read and sent, in order, all connections
    now,                    \* datetime.utcnow(), in minutes
    manager,                \* WorkspaceManager: [root, git_enabled, git_remote, git_branch]
    sel,                    \* the select_workspace call: where it stands, its answer
    seen,                   \* history: what the last reader of the manager got
    git                     \* history: the git commands of the last approve request

sandboxVars == <<sbx>>
storeVars   == <<disk, proposals, resp, fin>>
raceVars    == <<callers, approving>>
arbiterVars == <<pc, tool_depth, full_response, suppressed_xml_echo,
                 suppressing_xml_echo, last_xml_tool_output, frames,
                 lastEvent, nEvents, dropped>>
connVars    == <<conns, wire>>
clockVars   == <<now>>
workspaceVars == <<manager, sel, seen>>
gitVars     == <<git>>
vars == <<sbx, disk, proposals, resp, fin, callers, approving, pc, tool_depth,
          full_response, suppressed_xml_echo, suppressing_xml_echo,
          last_xml_tool_output, frames, lastEvent, nEvents, dropped,
          conns, wire, now, manager, sel, seen, git>>

(***************************************************************************)
(* Bounds                                                                  *)
(***************************************************************************)
MaxSegs == 3        \* path segments of a relative path given to safe_path
MaxLead == 1        \* leading separators of a relative path
MaxFiles == 2       \* FileChanges of one proposal (cap on add_file_to_proposal)

(***************************************************************************)
(* Paths.  An absolute (physical) path is the sequence of its component    *)
(* names, <<>> being the filesystem root.  A relative path as the caller   *)
(* writes it is [lead, segs]: the number of leading separators and the     *)
(* components after them ("" is [0, <<>>], "/" is [1, <<>>]).              *)
(***************************************************************************)
RECURSIVE SeqsUpTo(_, _)
SeqsUpTo(S, n) ==
    IF n = 0 THEN {<<>>}
    ELSE LET shorter == SeqsUpTo(S, n - 1)
         IN  shorter \cup {Append(q, x) : q \in shorter, x \in S}

IsPrefix(p, q) ==
    /\ Len(p) <= Len(q)
    /\ \A i \in 1..Len(p) : p[i] = q[i]

Parent(p) == IF p = <<>> THEN <<>> ELSE SubSeq(p, 1, Len(p) - 1)

RelPath(lead, segs) == [lead |-> lead, segs |-> segs]

\* Symbolic links of the filesystem: link site -> absolute target, NoLink when
\* the site is not a link.
NoLink == <<"-">>
LinkSites == {<<"ws", "lnk">>, <<"ws", "d", "up">>}
IsLink(links, p) == p \in DOMAIN links /\ links[p] # NoLink

\* Path.resolve(): walk the components from the filesystem root, ".." goes to
\* the parent of the physical directory reached so far, a component that is a
\* symbolic link is replaced by its (absolute) target, components that do not
\* exist are kept as written.  fuel bounds the links followed; the link tables
\* below contain no loop, so it is never exhausted.
RECURSIVE Walk(_, _, _, _)
Walk(links, cur, segs, fuel) ==
    IF segs = <<>> THEN cur
    ELSE LET s   == Head(segs)
             nxt == Append(cur, s)
         IN  IF s = ".." THEN Walk(links, Parent(cur), Tail(segs), fuel)
             ELSE IF IsLink(links, nxt) /\ fuel > 0
                  THEN Walk(links, <<>>, links[nxt] \o Tail(segs), fuel - 1)
                  ELSE Walk(links, nxt, Tail(segs), fuel)

Resolve(links, p) == Walk(links, <<>>, p, 2 * Len(p) + 2)

\* PurePath.relative_to succeeds: other's components are a prefix of p's.
AlwaysRelative(p, other) == TRUE

IsRelativeTo(p, other) == IsPrefix(other, p)

\* WorkspaceManager.safe_path: the resolved path, or the ValueError
\* "Path escapes workspace root".
Resolved(p) == [kind |-> "ok", path |-> p]
PathEscape == [kind |-> "PathEscape", path |-> <<>>]

SafePath(root, links, rel) ==
    IF rel.segs = <<>> /\ rel.lead <= 1
    THEN Resolved(root)
    ELSE LET clean_path == rel.segs
             resolved   == Resolve(links, root \o clean_path)
         IN  IF IsRelativeTo(resolved, root) THEN Resolved(resolved)
                                              ELSE PathEscape

(***************************************************************************)
(* SpecSandbox: safe_path on every bounded root, link table and path.      *)
(***************************************************************************)
Roots == {<<"ws">>, <<"ws", "d">>}
Segments == {"..", "d", "lnk", "up", "a"}
LinkTargets == {<<>>, <<"out">>, <<"ws">>, <<"ws", "d">>}
\* ws/d/up may also point at the other link (a chain of two links).
LinkTables ==
    {t \in [LinkSites -> LinkTargets \cup {NoLink, <<"ws", "lnk">>}] :
        t[<<"ws", "lnk">>] # <<"ws", "lnk">>}
RelPaths == {RelPath(l, q) : l \in 0..MaxLead, q \in SeqsUpTo(Segments, MaxSegs)}
Pending == [kind |-> "pending", path |-> <<>>]
Range(q) == {q[i] : i \in 1..Len(q)}

IdleStore ==
    /\ disk = <<>>
    /\ proposals = <<>>
    /\ resp = [op |-> "none"]
    /\ fin = <<>>
IdleRace == callers = <<>> /\ approving = <<>>
IdleConns == conns = <<>> /\ wire = <<>>
IdleClock == now = 0
IdleWorkspace == manager = <<>> /\ sel = <<>> /\ seen = <<>>
IdleGit == git = <<>>
\* a tool output: `lead` whitespace characters, then `len` characters of which
\* the first is `head`
Output(lead, head, len) == [lead |-> lead, head |-> head, len |-> len]
NoOutput == Output(0, "", 0)

\* an event of agent.astream_events, or an inbound frame
Event(kind, name, text, output) ==
    [kind |-> kind, name |-> name, text |-> text, output |-> output]
NoEvent == Event("none", "-", <<>>, NoOutput)

IdleArbiter ==
    /\ pc = "off"
    /\ tool_depth = 0
    /\ full_response = <<>>
    /\ suppressed_xml_echo = FALSE
    /\ suppressing_xml_echo = FALSE
    /\ last_xml_tool_output = NoOutput
    /\ frames = <<>>
    /\ lastEvent = NoEvent
    /\ nEvents = 0
    /\ dropped = 0
IdleSandbox == sbx = [root |-> <<"ws">>, links |-> <<>>, path |-> RelPath(0, <<>>),
                      result |-> Pending]

InitSandbox ==
    /\ sbx \in [root : Roots, links : LinkTables, path : RelPaths, result : {Pending}]
    /\ IdleStore /\ IdleRace /\ IdleArbiter /\ IdleConns /\ IdleClock /\ IdleGit /\ IdleWorkspace

SandboxResolve ==
    /\ sbx.result = Pending
    /\ sbx' = [sbx EXCEPT !.result = SafePath(sbx.root, sbx.links, sbx.path)]
    /\ UNCHANGED <<storeVars, raceVars, arbiterVars, connVars, clockVars, workspaceVars, gitVars>>

NextSandbox == SandboxResolve

SpecSandbox == InitSandbox /\ [][NextSandbox]_vars

\* C2: whatever safe_path returns is the workspace root or lies below it, also
\* when the caller follows the links of the returned path: a relative path made
\* of "..", leading separators and symbolic links is either resolved inside the
\* root or refused with PathEscape.
C2_SandboxContainment ==
    /\ sbx.result.kind \in {"pending", "ok", "PathEscape"}
    /\ sbx.result.kind = "ok" =>
          /\ IsPrefix(sbx.root, sbx.result.path)
          /\ IsPrefix(sbx.root, Resolve(sbx.links, sbx.result.path))

\* a path with a leading separator, a ".." and a followed link that resolves to
\* a proper descendant of the root
C2_Witness ==
    /\ sbx.result.kind = "ok"
    /\ sbx.path.lead = 1
    /\ ".." \in Range(sbx.path.segs)
    /\ "up" \in Range(sbx.path.segs)
    /\ IsLink(sbx.links, <<"ws", "d", "up">>)
    /\ sbx.result.path # sbx.root

\* the sandbox refuses a path that leaves the root through a link
C2_WitnessEscape ==
    /\ sbx.result = PathEscape
    /\ ".." \notin Range(sbx.path.segs)

(***************************************************************************)
(* Spec: the disk, the proposal store, the tools and the proposal routes.  *)
(*                                                                         *)
(* Route handlers are coroutines without a suspension point and tool calls *)
(* take the store lock for their single store access, so every handler and *)
(* every tool call is one atomic step; concurrency is their interleaving.  *)
(***************************************************************************)
WsRoot == <<"ws">>
FileA  == <<"ws", "a">>
DirD   == <<"ws", "d">>
FileDB == <<"ws", "d", "b">>
OutA   == <<"out", "a">>
Nodes  == {FileA, DirD, FileDB, OutA}

\* ws/lnk is a symbolic link to the directory /out outside the workspace
MainLinks == [s \in LinkSites |-> IF s = <<"ws", "lnk">> THEN <<"out">> ELSE NoLink]

None   == <<"None">>
Absent == [kind |-> "absent", content |-> None]
Dir    == [kind |-> "dir", content |-> None]
File(c) == [kind |-> "file", content |-> c]

NodeAt(d, p) ==
    IF p \in DOMAIN d THEN d[p]
    ELSE IF p \in {<<>>, WsRoot, <<"out">>} THEN Dir ELSE Absent
exists(d, p)  == NodeAt(d, p).kind # "absent"
is_file(d, p) == NodeAt(d, p).kind = "file"
is_dir(d, p)  == NodeAt(d, p).kind = "dir"

\* str.count / str.replace on contents (sequences of characters)
OccursAt(s, sub, i) ==
    /\ i + Len(sub) - 1 <= Len(s)
    /\ \A k \in 1..Len(sub) : s[i + k - 1] = sub[k]

RECURSIVE CountFrom(_, _, _)
CountFrom(s, sub, i) ==
    IF i > Len(s) - Len(sub) + 1 THEN 0
    ELSE IF OccursAt(s, sub, i) THEN 1 + CountFrom(s, sub, i + Len(sub))
    ELSE CountFrom(s, sub, i + 1)

count(s, sub) == IF sub = <<>> THEN Len(s) + 1 ELSE CountFrom(s, sub, 1)

RECURSIVE ReplaceFrom(_, _, _, _)
ReplaceFrom(s, old, new, i) ==
    IF i > Len(s) THEN <<>>
    ELSE IF OccursAt(s, old, i) THEN new \o ReplaceFrom(s, old, new, i + Len(old))
    ELSE <<s[i]>> \o ReplaceFrom(s, old, new, i + 1)

RECURSIVE Interleave(_, _)
Interleave(s, new) ==
    IF s = <<>> THEN new ELSE new \o <<Head(s)>> \o Interleave(Tail(s), new)

replace(s, old, new) ==
    IF old = <<>> THEN Interleave(s, new) ELSE ReplaceFrom(s, old, new, 1)

(***************************************************************************)
(* proposals/models.py                                                     *)
(***************************************************************************)
FileChange(path, operation, before, after) ==
    [path |-> path, operation |-> operation, before |-> before, after |-> after]

\* created_at is filled by its default factory, datetime.utcnow
ChangeProposal(files, summary) ==
    [files |-> files, summary |-> summary, created_at |-> now]

\* an identifier without an entry in the dictionary
NoProposal == [files |-> <<>>, summary |-> <<>>, created_at |-> 0]

\* str.splitlines, for texts whose only line boundary is "\n": the lines
\* without their boundary; a last line that is empty is not a line
NL == "\n"
RECURSIVE SplitLinesFrom(_, _)
SplitLinesFrom(s, line) ==
    IF s = <<>> THEN IF line = <<>> THEN <<>> ELSE <<line>>
    ELSE IF Head(s) = NL THEN <<line>> \o SplitLinesFrom(Tail(s), <<>>)
    ELSE SplitLinesFrom(Tail(s), Append(line, Head(s)))
splitlines(s) == SplitLinesFrom(s, <<>>)

\* the number of positions of lines whose line is not in the set of others
CountNotIn(lines, others) ==
    Cardinality({i \in 1..Len(lines) : lines[i] \notin Range(others)})

\* mutation of lines_added: the lines are compared position by position
lines_added_by_position(file_change) ==
    IF file_change.after = None THEN 0
    ELSE IF file_change.before = None THEN Len(splitlines(file_change.after))
    ELSE LET before_lines == splitlines(file_change.before)
             after_lines == splitlines(file_change.after)
         IN  Cardinality({i \in 1..Len(after_lines) :
                             i > Len(before_lines) \/ after_lines[i] # before_lines[i]})

\* mutation of lines_added: the net growth of an update
lines_added_net(file_change) ==
    IF file_change.after = None THEN 0
    ELSE IF file_change.before = None THEN Len(splitlines(file_change.after))
    ELSE LET d == Len(splitlines(file_change.after))
                    - Len(splitlines(file_change.before))
         IN  IF d > 0 THEN d ELSE 0

\* FileChange.lines_added
lines_added(file_change) ==
    IF file_change.after = None THEN 0
    ELSE IF file_change.before = None THEN Len(splitlines(file_change.after))
    ELSE CountNotIn(splitlines(file_change.after), splitlines(file_change.before))

\* FileChange.lines_removed
lines_removed(file_change) ==
    IF file_change.before = None THEN 0
    ELSE IF file_change.after = None THEN Len(splitlines(file_change.before))
    ELSE CountNotIn(splitlines(file_change.before), splitlines(file_change.after))

\* ChangeProposal.total_lines_added / total_lines_removed:
\*   sum(f.lines_added for f in self.files)
RECURSIVE total_lines_added(_)
total_lines_added(files) ==
    IF files = <<>> THEN 0
    ELSE lines_added(Head(files)) + total_lines_added(Tail(files))

RECURSIVE total_lines_removed(_)
total_lines_removed(files) ==
    IF files = <<>> THEN 0
    ELSE lines_removed(Head(files)) + total_lines_removed(Tail(files))

\* mutation of from_proposal: the statistics of the first change only
from_proposal_first_only(id, proposal) ==
    [proposal_id |-> id,
     file_count |-> Len(proposal.files),
     lines_added |-> lines_added(proposal.files[1]),
     lines_removed |-> lines_removed(proposal.files[1]),
     created_at |-> proposal.created_at]

\* ProposalSummary.from_proposal (the summary text is left out)
from_proposal(id, proposal) ==
    [proposal_id |-> id,
     file_count |-> Len(proposal.files),
     lines_added |-> total_lines_added(proposal.files),
     lines_removed |-> total_lines_removed(proposal.files),
     created_at |-> proposal.created_at]

\* str.capitalize on the value of an OperationType
Capitalize(operation) ==
    CASE operation = "create" -> "Create"
      [] operation = "update" -> "Update"
      [] operation = "delete" -> "Delete"

\* ProposalStore._generate_summary: "<Operation> <path>"
GenerateSummary(file_change) ==
    <<Capitalize(file_change.operation)>> \o file_change.path.segs

(***************************************************************************)
(* proposals/store.py                                                      *)
(***************************************************************************)
\* mutation of StoreInsert: the proposal is not stored
StoreInsertNothing(store, id, proposal) == store

\* the dictionary after  self._proposals[proposal.proposal_id] = proposal
StoreInsert(store, id, proposal) == [store EXCEPT ![id] = proposal]

\* ProposalStore.get
StoreGet(store, id) == store[id]

\* the dictionary after  self._proposals.pop(proposal_id, None)
StoreKeep(store, id) == store

StorePop(store, id) == [store EXCEPT ![id] = NoProposal]

\* mutation of StoreAppend: the proposal is stamped again
StoreAppendRestamps(store, id, file_change) ==
    [store EXCEPT ![id].files = Append(@, file_change), ![id].created_at = now]

\* the list after  proposal.files.append(file_change)
StoreAppend(store, id, file_change) ==
    [store EXCEPT ![id].files = Append(@, file_change)]

\* ProposalStore.create_proposal; the identifier is the first 8 characters of
\* a fresh uuid4, whatever the dictionary holds.
create_proposal(store, id, path, operation, before, after, summary) ==
    LET file_change == FileChange(path, operation, before, after)
        proposal == ChangeProposal(<<file_change>>,
                        IF summary = <<>> THEN GenerateSummary(file_change)
                                          ELSE summary)
    IN  StoreInsert(store, id, proposal)

(***************************************************************************)
(* Inputs                                                                  *)
(***************************************************************************)
Ids == {"id1", "id2"}
P == <<"p">>
Q == <<"q">>
ToolPaths == {RelPath(0, <<"a">>), RelPath(0, <<"d">>), RelPath(0, <<"lnk", "a">>)}
WriteContents == {Q}
EditArgs == {<<P, Q>>}
AppendChanges ==
    { FileChange(RelPath(0, <<"a">>), "delete", P, None),
      FileChange(RelPath(0, <<"d">>), "create", None, Q),
      FileChange(RelPath(0, <<"lnk", "a">>), "create", None, Q) }

\* fin[id] (history): an earlier approve request wrote or deleted a file for the
\* proposal that is now live under id
NoFin == FALSE

\* resp: the response of the last request.  affected is files_affected of a
\* ProposalResult (an HTTPException carries none); the history fields written
\* and applied are the paths approve_proposal wrote or deleted and the number of
\* its loop iterations that completed.  listed is the answer of list_pending
\* (identifiers, in order) and summaries its ProposalSummary objects, cleared
\* the count clear returns, and the history field swept the number of entries
\* the expiry sweep of the request removed.
Response(op, id, status) ==
    [op |-> op, id |-> id, status |-> status, affected |-> <<>>,
     written |-> <<>>, applied |-> 0, listed |-> <<>>, cleared |-> 0,
     swept |-> 0, summaries |-> <<>>]

InitStore ==
    /\ disk = [n \in Nodes |-> CASE n = FileA -> File(P)
                                  [] n = DirD -> Dir
                                  [] n = FileDB -> File(P)
                                  [] n = OutA -> File(P)]
    /\ proposals = [i \in Ids |-> NoProposal]
    /\ resp = Response("none", "-", "-")
    /\ fin = [i \in Ids |-> NoFin]

(***************************************************************************)
(* tools/filesystem.py                                                     *)
(***************************************************************************)
ToolError(op) == Response(op, "-", "error")

\* a step of the store and disk leaves the other components alone
StoreOnly == UNCHANGED <<sandboxVars, raceVars, arbiterVars, connVars, clockVars, workspaceVars, gitVars>>

Ls(path) ==
    /\ resp' = LET target == SafePath(WsRoot, MainLinks, path)
               IN  IF target.kind # "ok" THEN ToolError("ls")
                   ELSE IF ~exists(disk, target.path) THEN ToolError("ls")
                   ELSE IF ~is_dir(disk, target.path) THEN ToolError("ls")
                   ELSE Response("ls", "-", "listing")
    /\ UNCHANGED <<disk, proposals, fin>>
    /\ StoreOnly

ReadFile(path) ==
    /\ resp' = LET target == SafePath(WsRoot, MainLinks, path)
               IN  IF target.kind # "ok" THEN ToolError("read_file")
                   ELSE IF ~exists(disk, target.path) THEN ToolError("read_file")
                   ELSE IF ~is_file(disk, target.path) THEN ToolError("read_file")
                   ELSE Response("read_file", "-", "content")
    /\ UNCHANGED <<disk, proposals, fin>>
    /\ StoreOnly

\* mutation of WriteFile: every write is recorded as an update
WriteFileAsUpdate(path, content, id) ==
    LET target == SafePath(WsRoot, MainLinks, path)
        isUpdate == exists(disk, target.path) /\ is_file(disk, target.path)
        before == IF isUpdate THEN NodeAt(disk, target.path).content ELSE None
    IN  /\ IF target.kind # "ok"
           THEN /\ resp' = ToolError("write_file")
                /\ UNCHANGED <<proposals, fin>>
           ELSE /\ proposals' = create_proposal(proposals, id, path, "update",
                                                before, content, <<>>)
                /\ fin' = [fin EXCEPT ![id] = NoFin]
                /\ resp' = Response("write_file", id, "proposed")
        /\ UNCHANGED disk
        /\ StoreOnly

WriteFile(path, content, id) ==
    LET target == SafePath(WsRoot, MainLinks, path)
        isUpdate == exists(disk, target.path) /\ is_file(disk, target.path)
        before == IF isUpdate THEN NodeAt(disk, target.path).content ELSE None
        operation == IF isUpdate THEN "update" ELSE "create"
    IN  /\ IF target.kind # "ok"
           THEN /\ resp' = ToolError("write_file")
                /\ UNCHANGED <<proposals, fin>>
           ELSE /\ proposals' = create_proposal(proposals, id, path, operation,
                                                before, content, <<>>)
                /\ fin' = [fin EXCEPT ![id] = NoFin]
                /\ resp' = Response("write_file", id, "proposed")
        /\ UNCHANGED disk
        /\ StoreOnly

EditFile(path, old_str, new_str, id) ==
    LET target == SafePath(WsRoot, MainLinks, path)
        content == NodeAt(disk, target.path).content
    IN  /\ IF \/ target.kind # "ok"
              \/ ~exists(disk, target.path)
              \/ ~is_file(disk, target.path)
              \/ count(content, old_str) = 0
              \/ count(content, old_str) > 1
           THEN /\ resp' = ToolError("edit_file")
                /\ UNCHANGED <<proposals, fin>>
           ELSE /\ proposals' = create_proposal(proposals, id, path, "update",
                                    content, replace(content, old_str, new_str),
                                    <<"Edit">> \o path.segs \o <<"replace text">>)
                /\ fin' = [fin EXCEPT ![id] = NoFin]
                /\ resp' = Response("edit_file", id, "proposed")
        /\ UNCHANGED disk
        /\ StoreOnly

DeleteFile(path, id) ==
    LET target == SafePath(WsRoot, MainLinks, path)
    IN  /\ IF \/ target.kind # "ok"
              \/ ~exists(disk, target.path)
              \/ ~is_file(disk, target.path)
           THEN /\ resp' = ToolError("delete_file")
                /\ UNCHANGED <<proposals, fin>>
           ELSE /\ proposals' = create_proposal(proposals, id, path, "delete",
                                    NodeAt(disk, target.path).content, None, <<>>)
                /\ fin' = [fin EXCEPT ![id] = NoFin]
                /\ resp' = Response("delete_file", id, "proposed")
        /\ UNCHANGED disk
        /\ StoreOnly

\* shutil.rmtree(target) / target.rmdir(): the directory and everything below it
RemoveTree(d, target) ==
    [n \in DOMAIN d |-> IF IsPrefix(target, n) THEN Absent ELSE d[n]]

DeleteDirectory(path, recursive) ==
    LET target == SafePath(WsRoot, MainLinks, path)
        empty == \A n \in DOMAIN disk :
                    (IsPrefix(target.path, n) /\ n # target.path) => ~exists(disk, n)
    IN  /\ IF \/ target.kind # "ok"
              \/ ~exists(disk, target.path)
              \/ ~is_dir(disk, target.path)
              \/ target.path = WsRoot
              \/ (~recursive /\ ~empty)
           THEN /\ resp' = ToolError("delete_directory")
                /\ UNCHANGED disk
           ELSE /\ disk' = RemoveTree(disk, target.path)
                /\ resp' = Response("delete_directory", "-", "deleted")
        /\ UNCHANGED <<proposals, fin>>
        /\ StoreOnly

\* generate_datamodel, generate_testcase_from_datamodel, modify_testcase_xml,
\* generate_formio_json: run a sub-agent and return its text
GenerateTool ==
    /\ resp' = Response("generate", "-", "content")
    /\ UNCHANGED <<disk, proposals, fin>>
    /\ StoreOnly

(***************************************************************************)
(* proposals/routes.py                                                     *)
(***************************************************************************)
\* Path.mkdir(parents=True, exist_ok=True): fails when a component is a file
RECURSIVE MkdirParents(_, _)
MkdirParents(d, p) ==
    IF is_dir(d, p) THEN [ok |-> TRUE, disk |-> d]
    ELSE IF is_file(d, p) THEN [ok |-> FALSE, disk |-> d]
    ELSE LET up == MkdirParents(d, Parent(p))
         IN  IF ~up.ok THEN up
             ELSE [ok |-> TRUE,
                   disk |-> IF p \in DOMAIN up.disk
                            THEN [up.disk EXCEPT ![p] = Dir] ELSE up.disk]

\* the iteration without its write_text / unlink
ApplyOneNoWrite(d, file_change) ==
    LET sp == SafePath(WsRoot, MainLinks, file_change.path)
    IN  [ok |-> sp.kind = "ok", disk |-> d, wrote |-> sp.kind = "ok"]

\* the iteration with a comparison added: an update whose before is not the
\* content on disk is skipped
ApplyOneCompare(d, file_change) ==
    LET sp == SafePath(WsRoot, MainLinks, file_change.path)
        target_path == sp.path
    IN  IF sp.kind # "ok" THEN [ok |-> FALSE, disk |-> d, wrote |-> FALSE]
        ELSE IF file_change.operation = "delete"
        THEN IF ~exists(d, target_path) THEN [ok |-> TRUE, disk |-> d, wrote |-> FALSE]
             ELSE [ok |-> TRUE, disk |-> [d EXCEPT ![target_path] = Absent],
                   wrote |-> TRUE]
        ELSE IF NodeAt(d, target_path).content # file_change.before
        THEN [ok |-> TRUE, disk |-> d, wrote |-> FALSE]
        ELSE [ok |-> TRUE,
              disk |-> [d EXCEPT ![target_path] = File(file_change.after)],
              wrote |-> TRUE]

\* one iteration of the loop over proposal.files in approve_proposal:
\* ok = FALSE when the iteration raised, wrote = the path was appended to
\* files_affected
ApplyOne(d, file_change) ==
    LET sp == SafePath(WsRoot, MainLinks, file_change.path)
        target_path == sp.path
        made == MkdirParents(d, Parent(target_path))
    IN  IF sp.kind # "ok" THEN [ok |-> FALSE, disk |-> d, wrote |-> FALSE]
        ELSE IF file_change.operation = "delete"
        THEN IF ~exists(d, target_path) THEN [ok |-> TRUE, disk |-> d, wrote |-> FALSE]
             ELSE IF is_dir(d, target_path) THEN [ok |-> FALSE, disk |-> d, wrote |-> FALSE]
             ELSE [ok |-> TRUE, disk |-> [d EXCEPT ![target_path] = Absent],
                   wrote |-> TRUE]
        ELSE IF ~made.ok THEN [ok |-> FALSE, disk |-> d, wrote |-> FALSE]
             ELSE IF file_change.after = None
             THEN [ok |-> TRUE, disk |-> made.disk, wrote |-> FALSE]
             ELSE IF is_dir(made.disk, target_path)
             THEN [ok |-> FALSE, disk |-> made.disk, wrote |-> FALSE]
             ELSE [ok |-> TRUE,
                   disk |-> [made.disk EXCEPT ![target_path] = File(file_change.after)],
                   wrote |-> TRUE]

\* the loop: stops at the first iteration that raises
RECURSIVE ApplyChanges(_, _, _, _)
ApplyChanges(d, files, i, files_affected) ==
    IF i > Len(files)
    THEN [failed |-> FALSE, disk |-> d, files_affected |-> files_affected,
          applied |-> Len(files)]
    ELSE LET r == ApplyOne(d, files[i])
         IN  IF ~r.ok
             THEN [failed |-> TRUE, disk |-> r.disk, files_affected |-> files_affected,
                   applied |-> i - 1]
             ELSE ApplyChanges(r.disk, files, i + 1,
                      IF r.wrote THEN Append(files_affected, files[i].path)
                                 ELSE files_affected)

\* POST /api/proposals/{proposal_id}/approve
ApproveProposal(proposal_id) ==
    LET proposal == StoreGet(proposals, proposal_id)
        r == ApplyChanges(disk, proposal.files, 1, <<>>)
    IN  /\ StoreOnly
        /\ IF proposal = NoProposal
           THEN /\ resp' = Response("approve", proposal_id, "404")
                /\ UNCHANGED <<disk, proposals, fin>>
           ELSE /\ disk' = r.disk
                /\ IF r.failed
                   THEN /\ resp' = [Response("approve", proposal_id, "500") EXCEPT
                                       !.written = r.files_affected,
                                       !.applied = r.applied]
                        /\ fin' = [fin EXCEPT ![proposal_id] =
                                       @ \/ r.files_affected # <<>>]
                        /\ UNCHANGED proposals
                   ELSE /\ proposals' = StorePop(proposals, proposal_id)
                        /\ resp' = [Response("approve", proposal_id, "200") EXCEPT
                                       !.affected = r.files_affected,
                                       !.written = r.files_affected,
                                       !.applied = r.applied]
                        /\ fin' = [fin EXCEPT ![proposal_id] = NoFin]

\* mutation of RejectProposal: the files of the rejected proposal are unlinked
RejectProposalUnlink(proposal_id) ==
    LET proposal == StoreGet(proposals, proposal_id)
    IN  /\ proposals' = StorePop(proposals, proposal_id)
        /\ resp' = Response("reject", proposal_id,
                            IF proposal = NoProposal THEN "404" ELSE "200")
        /\ fin' = [fin EXCEPT ![proposal_id] = NoFin]
        /\ disk' = IF proposal = NoProposal THEN disk
                   ELSE [disk EXCEPT ![FileA] = Absent]
        /\ StoreOnly

\* POST /api/proposals/{proposal_id}/reject
RejectProposal(proposal_id) ==
    LET proposal == StoreGet(proposals, proposal_id)
    IN  /\ proposals' = StorePop(proposals, proposal_id)
        /\ IF proposal = NoProposal
           THEN /\ resp' = Response("reject", proposal_id, "404")
                /\ UNCHANGED fin
           ELSE /\ resp' = [Response("reject", proposal_id, "200") EXCEPT
                               !.affected = [i \in 1..Len(proposal.files) |->
                                                proposal.files[i].path]]
                /\ fin' = [fin EXCEPT ![proposal_id] = NoFin]
        /\ UNCHANGED disk
        /\ StoreOnly

\* ProposalStore.add_file_to_proposal
AddFileToProposal(proposal_id, file_change) ==
    /\ Len(proposals[proposal_id].files) < MaxFiles
    /\ IF StoreGet(proposals, proposal_id) = NoProposal
       THEN /\ resp' = Response("add_file", proposal_id, "None")
            /\ UNCHANGED proposals
       ELSE /\ proposals' = StoreAppend(proposals, proposal_id, file_change)
            /\ resp' = Response("add_file", proposal_id, "proposal")
    /\ UNCHANGED <<disk, fin>>
    /\ StoreOnly

\* Spec: the program as it is wired (no caller of add_file_to_proposal exists)
Next ==
    \/ \E path \in ToolPaths : Ls(path)
    \/ \E path \in ToolPaths : ReadFile(path)
    \/ \E path \in ToolPaths, content \in WriteContents, id \in Ids :
          WriteFile(path, content, id)
    \/ \E path \in ToolPaths, e \in EditArgs, id \in Ids :
          EditFile(path, e[1], e[2], id)
    \/ \E path \in ToolPaths, id \in Ids : DeleteFile(path, id)
    \/ \E path \in ToolPaths, recursive \in BOOLEAN :
          DeleteDirectory(path, recursive)
    \/ GenerateTool
    \/ \E id \in Ids : ApproveProposal(id)
    \/ \E id \in Ids : RejectProposal(id)

Init == InitStore /\ IdleSandbox /\ IdleRace /\ IdleArbiter /\ IdleConns /\ IdleClock /\ IdleGit /\ IdleWorkspace

Spec == Init /\ [][Next]_vars

\* SpecAppend: the store with add_file_to_proposal in use, on one identifier
AppendIds == {"id1"}

NextAppend ==
    \/ \E path \in ToolPaths, content \in WriteContents, id \in AppendIds :
          WriteFile(path, content, id)
    \/ \E path \in ToolPaths, e \in EditArgs, id \in AppendIds :
          EditFile(path, e[1], e[2], id)
    \/ \E path \in ToolPaths, id \in AppendIds : DeleteFile(path, id)
    \/ \E path \in ToolPaths, recursive \in BOOLEAN :
          DeleteDirectory(path, recursive)
    \/ \E id \in AppendIds, fc \in AppendChanges : AddFileToProposal(id, fc)
    \/ \E id \in AppendIds : ApproveProposal(id)
    \/ \E id \in AppendIds : RejectProposal(id)

SpecAppend == Init /\ [][NextAppend]_vars

(***************************************************************************)
(* Claims on the tools, the store and the routes                           *)
(***************************************************************************)
CreateOps == {"write_file", "edit_file", "delete_file"}
FinalizeOps == {"approve", "reject"}

\* the step is a finalize request on id that finds a live proposal
FinalizesLive(id) ==
    /\ resp'.op \in FinalizeOps
    /\ resp'.id = id
    /\ proposals[id] # NoProposal

ApprovesLive(id) == FinalizesLive(id) /\ resp'.op = "approve"

Target(file_change) == SafePath(WsRoot, MainLinks, file_change.path).path

\* what a FileChange leaves at its path: no file for a delete, a file holding
\* `after` for a create or an update
Effect(file_change, node) ==
    IF file_change.operation = "delete" THEN node.kind # "file"
    ELSE node = File(file_change.after)

\* the first k changes of files have taken effect on d2, starting from d1, and
\* nothing else has changed
PrefixApplied(files, k, d1, d2) ==
    \A n \in DOMAIN d1 :
        LET touching == {i \in 1..k : Target(files[i]) = n}
        IN  IF touching = {} THEN d2[n] = d1[n]
            ELSE \E i \in touching :
                    /\ \A j \in touching : j <= i
                    /\ Effect(files[i], d2[n])

\* C1: no tool call changes a file or directory of the workspace; the disk
\* changes only in an approve request.
C1_DiskChangesOnlyOnApprove == [][disk' # disk => resp'.op = "approve"]_vars

\* C3: whatever the order of approve and reject requests on an identifier, the
\* changes of a proposal are written to disk by at most one request: a request
\* that writes finds a proposal no earlier request has written.
C3_WrittenOnce ==
    [][\A id \in Ids :
          (FinalizesLive(id) /\ resp'.written # <<>>) => ~fin[id]]_vars

\* C4: a create never replaces a live proposal, so the identifiers of the live
\* proposals are pairwise distinct and each created proposal can be fetched.
C4_CreateNeverReplaces ==
    [][\A id \in Ids :
          (resp'.op \in CreateOps /\ resp'.status = "proposed" /\ resp'.id = id) =>
             /\ proposals[id] = NoProposal
             /\ StoreGet(proposals', id) # NoProposal]_vars

C7_FailureReportsApplied ==
    (resp.op = "approve" /\ resp.status = "500" /\ resp.written # <<>>) =>
        /\ proposals[resp.id] = NoProposal
        /\ resp.affected = resp.written

Callers == {1, 2}
RaceId == "id1"

\* the proposals the store may hold when the race starts: one or two changes
RaceProposals ==
    {ChangeProposal(files, GenerateSummary(files[1])) :
        files \in {q \in SeqsUpTo(AppendChanges, MaxFiles) : q # <<>>}}

Caller(at, result) == [pc |-> at, result |-> result]

InitRace ==
    /\ IdleClock /\ IdleGit /\ IdleWorkspace
    /\ proposals \in {st \in [Ids -> RaceProposals \cup {NoProposal}] :
                         st[RaceId] # NoProposal}
    /\ callers = [c \in Callers |-> Caller("start", NoProposal)]
    /\ approving = <<>>
    /\ disk = <<>>
    /\ resp = [op |-> "none"]
    /\ fin = <<>>
    /\ IdleSandbox /\ IdleArbiter /\ IdleConns

\* with self._lock:  (entered)
AcquireLock(c) ==
    /\ callers[c].pc = "start"
    /\ \A o \in Callers : callers[o].pc # "locked"
    /\ callers' = [callers EXCEPT ![c].pc = "locked"]
    /\ UNCHANGED <<approving, storeVars, sandboxVars, arbiterVars, connVars, clockVars, workspaceVars, gitVars>>

\* return self._proposals.pop(proposal_id, None)  (and the lock is released)
Remove(c) ==
    /\ callers[c].pc = "locked"
    /\ callers' = [callers EXCEPT ![c] = Caller("done", StoreGet(proposals, RaceId))]
    /\ proposals' = StorePop(proposals, RaceId)
    /\ UNCHANGED <<approving, disk, resp, fin, sandboxVars, arbiterVars, connVars, clockVars, workspaceVars, gitVars>>

NextRace ==
    \/ \E c \in Callers : AcquireLock(c)
    \/ \E c \in Callers : Remove(c)

SpecRace == InitRace /\ [][NextRace]_vars

\* the callers of the race whose remove returned a proposal
Winners == {c \in Callers : callers[c].pc = "done" /\ callers[c].result # NoProposal}

\* C5: of two racing remove calls on a live identifier never both return the
\* proposal, and once both have returned exactly one of them holds it while the
\* other got NotFound.
C5_OneRemoveWins ==
    /\ Cardinality(Winners) <= 1
    /\ (\A c \in Callers : callers[c].pc = "done") =>
          /\ Cardinality(Winners) = 1
          /\ \A c \in Callers \ Winners : callers[c].result = NoProposal
          /\ StoreGet(proposals, RaceId) = NoProposal

\* both calls have returned and the second caller is the one that got the
\* two-change proposal
C5_Witness ==
    /\ \A c \in Callers : callers[c].pc = "done"
    /\ Len(callers[2].result.files) = 2
    /\ callers[1].result = NoProposal

(***************************************************************************)
(* SpecArbiter: the receive loop of websocket_endpoint and, inside a turn, *)
(* its loop over the events of agent.astream_events.  A text is the        *)
(* sequence of its characters.  A chunk whose content is a list is handled *)
(* item by item exactly as consecutive chunks with a string content are,   *)
(* so the model draws one text per chunk event.                            *)
(***************************************************************************)
MaxEvents == 4      \* agent events handled in one turn
MinXmlLen == 200    \* len(stripped) >= 200

Letters == {"a", "x", "m", "l", "A", "C", "D", "T", "_"}
Whitespace == {" "}
IsLetter(ch) == ch \in Letters
\* \w: letters, digits and the underscore
IsWord(ch) == ch \in Letters

\* the five alternatives of XML_START_RE tried at position i (1-based)
MatchAt(text, i) ==
    \/ /\ OccursAt(text, <<"<", "?", "x", "m", "l">>, i)
       /\ (i + 5 > Len(text) \/ ~IsWord(text[i + 5]))
    \/ /\ OccursAt(text, <<"<", "/">>, i)
       /\ i + 2 <= Len(text) /\ IsLetter(text[i + 2])
    \/ /\ OccursAt(text, <<"<">>, i)
       /\ i + 1 <= Len(text) /\ IsLetter(text[i + 1])
    \/ OccursAt(text, <<"<", "!", "-", "-">>, i)
    \/ OccursAt(text, <<"<", "!", "[", "C", "D", "A", "T", "A", "[">>, i)

\* XML_START_RE.search(text): the position of the leftmost match, 0 for None
Search(text) ==
    IF \E i \in 1..Len(text) : MatchAt(text, i)
    THEN CHOOSE i \in 1..Len(text) :
            MatchAt(text, i) /\ \A j \in 1..(i - 1) : ~MatchAt(text, j)
    ELSE 0

RECURSIVE rstrip(_)
rstrip(text) ==
    IF text # <<>> /\ text[Len(text)] \in Whitespace
    THEN rstrip(SubSeq(text, 1, Len(text) - 1))
    ELSE text

\* the echo filter switched off: every text passes, no flag changes
PassThrough(text, suppressing, suppressed, last) ==
    [safe |-> text, suppressing |-> suppressing, suppressed |-> suppressed]

\* _maybe_suppress_xml_echo: the text to stream and the two flags afterwards
MaybeSuppressXmlEcho(text, suppressing, suppressed, last) ==
    IF text = <<>>
    THEN [safe |-> text, suppressing |-> suppressing, suppressed |-> suppressed]
    ELSE IF suppressing
    THEN [safe |-> <<>>, suppressing |-> suppressing, suppressed |-> TRUE]
    ELSE IF last = NoOutput
    THEN [safe |-> text, suppressing |-> suppressing, suppressed |-> suppressed]
    ELSE IF Search(text) = 0
    THEN [safe |-> text, suppressing |-> suppressing, suppressed |-> suppressed]
    ELSE [safe |-> rstrip(SubSeq(text, 1, Search(text) - 1)),
          suppressing |-> TRUE, suppressed |-> TRUE]

\* frames sent to the client; the arguments of a tool call are not modelled
Frame(type, content, result) == [type |-> type, content |-> content, result |-> result]
StreamFrame(text) == Frame("stream", text, NoOutput)

XML_TOOL_NAMES ==
    {"generate_datamodel", "generate_testcase_from_datamodel", "modify_testcase_xml"}

\* inputs of a turn
ToolNames == {"generate_datamodel", "ls"}
ChunkTexts ==
    { <<>>, <<"a">>, <<"<">>,
      <<"a", " ", "<", "a">>, <<" ", "<", "a">>, <<"<", "/", "a">>,
      <<"<", "!", "-", "-">>, <<"<", "?", "x", "m", "l">>,
      <<"<", "?", "x", "m", "l", "a">>,
      <<"<", "!", "[", "C", "D", "A", "T", "A", "[">> }
ToolOutputs ==
    { Output(1, "<", MinXmlLen), Output(1, "<", MinXmlLen - 1),
      Output(0, "a", MinXmlLen) }
EndedTools ==
    ({"generate_datamodel"} \X ToolOutputs) \cup {<<"ls", Output(1, "<", MinXmlLen)>>}
FinalTexts == {<<>>, <<"a">>, <<"<", "a">>}

ArbiterOnly == UNCHANGED <<sandboxVars, storeVars, raceVars, connVars, clockVars, workspaceVars, gitVars>>

InitArbiter ==
    /\ pc = "waiting"
    /\ tool_depth = 0
    /\ full_response = <<>>
    /\ suppressed_xml_echo = FALSE
    /\ suppressing_xml_echo = FALSE
    /\ last_xml_tool_output = NoOutput
    /\ frames = <<>>
    /\ lastEvent = NoEvent
    /\ nEvents = 0
    /\ dropped = 0
    /\ IdleSandbox /\ IdleStore /\ IdleRace /\ IdleConns /\ IdleClock /\ IdleGit /\ IdleWorkspace

\* mutation of Receive: the state of the previous turn is kept
ReceiveKeepsState ==
    /\ pc = "waiting"
    /\ pc' = "streaming"
    /\ frames' = <<>>
    /\ lastEvent' = Event("message", "-", <<>>, NoOutput)
    /\ nEvents' = 0
    /\ dropped' = 0
    /\ UNCHANGED <<tool_depth, full_response, suppressed_xml_echo,
                   suppressing_xml_echo, last_xml_tool_output>>
    /\ ArbiterOnly

\* an inbound frame of type "message": the state of the turn is set up
Receive ==
    /\ pc = "waiting"
    /\ pc' = "streaming"
    /\ full_response' = <<>>
    /\ suppressed_xml_echo' = FALSE
    /\ suppressing_xml_echo' = FALSE
    /\ last_xml_tool_output' = NoOutput
    /\ tool_depth' = 0
    /\ frames' = <<>>
    /\ lastEvent' = Event("message", "-", <<>>, NoOutput)
    /\ nEvents' = 0
    /\ dropped' = 0
    /\ ArbiterOnly

\* an inbound frame of another type: continue
ReceiveOther ==
    /\ pc = "waiting"
    /\ lastEvent' = Event("other", "-", <<>>, NoOutput)
    /\ UNCHANGED <<pc, tool_depth, full_response, suppressed_xml_echo,
                   suppressing_xml_echo, last_xml_tool_output, frames, nEvents,
                   dropped>>
    /\ ArbiterOnly

\* json.loads (or the reading of a history entry) raises: the outer handler
\* sends an error frame and the endpoint returns
ReceiveInvalid ==
    /\ pc = "waiting"
    /\ pc' = "closed"
    /\ frames' = Append(frames, Frame("error", <<"e">>, NoOutput))
    /\ lastEvent' = Event("invalid", "-", <<>>, NoOutput)
    /\ UNCHANGED <<tool_depth, full_response, suppressed_xml_echo,
                   suppressing_xml_echo, last_xml_tool_output, nEvents, dropped>>
    /\ ArbiterOnly

\* receive_text raises WebSocketDisconnect
Disconnect ==
    /\ pc = "waiting"
    /\ pc' = "closed"
    /\ lastEvent' = Event("disconnect", "-", <<>>, NoOutput)
    /\ UNCHANGED <<tool_depth, full_response, suppressed_xml_echo,
                   suppressing_xml_echo, last_xml_tool_output, frames, nEvents,
                   dropped>>
    /\ ArbiterOnly

\* the loop body is entered for one more event of the turn
TakesEvent(event) ==
    /\ pc = "streaming"
    /\ nEvents < MaxEvents
    /\ nEvents' = nEvents + 1
    /\ lastEvent' = event
    /\ pc' = pc

\* the test that skips model output while a tool is executing, removed
NeverInTool(depth) == FALSE

\* if tool_depth > 0: continue
InTool(depth) == depth > 0

\* kind == "on_chat_model_stream"
OnChatModelStream(text) ==
    LET r == MaybeSuppressXmlEcho(text, suppressing_xml_echo, suppressed_xml_echo,
                                  last_xml_tool_output)
    IN  /\ TakesEvent(Event("on_chat_model_stream", "-", text, NoOutput))
        /\ IF InTool(tool_depth)
           THEN /\ dropped' = IF text # <<>> THEN dropped + 1 ELSE dropped
                /\ UNCHANGED <<full_response, suppressed_xml_echo,
                               suppressing_xml_echo, frames>>
           ELSE /\ suppressing_xml_echo' = r.suppressing
                /\ suppressed_xml_echo' = r.suppressed
                /\ IF r.safe # <<>>
                   THEN /\ full_response' = full_response \o r.safe
                        /\ frames' = Append(frames, StreamFrame(r.safe))
                   ELSE UNCHANGED <<full_response, frames>>
                /\ UNCHANGED dropped
        /\ UNCHANGED <<tool_depth, last_xml_tool_output>>
        /\ ArbiterOnly

\* mutation of OnToolStart: the tool_call frame of a nested tool is not sent
OnToolStartTopOnly(tool_name) ==
    /\ TakesEvent(Event("on_tool_start", tool_name, <<>>, NoOutput))
    /\ tool_depth' = tool_depth + 1
    /\ frames' = IF tool_depth > 0 THEN frames
                 ELSE Append(frames, Frame("tool_call", <<tool_name>>, NoOutput))
    /\ UNCHANGED <<full_response, suppressed_xml_echo, suppressing_xml_echo,
                   last_xml_tool_output, dropped>>
    /\ ArbiterOnly

\* kind == "on_tool_start"
OnToolStart(tool_name) ==
    /\ TakesEvent(Event("on_tool_start", tool_name, <<>>, NoOutput))
    /\ tool_depth' = tool_depth + 1
    /\ frames' = Append(frames, Frame("tool_call", <<tool_name>>, NoOutput))
    /\ UNCHANGED <<full_response, suppressed_xml_echo, suppressing_xml_echo,
                   last_xml_tool_output, dropped>>
    /\ ArbiterOnly

\* mutation of OnToolEnd: the length is taken before the leading whitespace is
\* removed
OnToolEndRawLength(tool_name, tool_output) ==
    /\ TakesEvent(Event("on_tool_end", tool_name, <<>>, tool_output))
    /\ tool_depth' = IF tool_depth - 1 > 0 THEN tool_depth - 1 ELSE 0
    /\ frames' = Append(frames, Frame("tool_result", <<tool_name>>, tool_output))
    /\ last_xml_tool_output' =
          IF /\ tool_name \in XML_TOOL_NAMES
             /\ tool_output.head = "<"
             /\ tool_output.lead + tool_output.len >= MinXmlLen
          THEN tool_output
          ELSE last_xml_tool_output
    /\ UNCHANGED <<full_response, suppressed_xml_echo, suppressing_xml_echo, dropped>>
    /\ ArbiterOnly

\* kind == "on_tool_end"
OnToolEnd(tool_name, tool_output) ==
    /\ TakesEvent(Event("on_tool_end", tool_name, <<>>, tool_output))
    /\ tool_depth' = IF tool_depth - 1 > 0 THEN tool_depth - 1 ELSE 0
    /\ frames' = Append(frames, Frame("tool_result", <<tool_name>>, tool_output))
    /\ last_xml_tool_output' =
          IF /\ tool_name \in XML_TOOL_NAMES
             /\ tool_output.head = "<"
             /\ tool_output.len >= MinXmlLen
          THEN tool_output
          ELSE last_xml_tool_output
    /\ UNCHANGED <<full_response, suppressed_xml_echo, suppressing_xml_echo, dropped>>
    /\ ArbiterOnly

\* the fallback without its test of suppressed_xml_echo
OnChainEndAfterSuppression(content) ==
    /\ TakesEvent(Event("on_chain_end", "-", content, NoOutput))
    /\ IF content # <<>> /\ content # full_response /\ full_response = <<>>
       THEN /\ full_response' = content
            /\ frames' = Append(frames, StreamFrame(content))
       ELSE UNCHANGED <<full_response, frames>>
    /\ UNCHANGED <<tool_depth, suppressed_xml_echo, suppressing_xml_echo,
                   last_xml_tool_output, dropped>>
    /\ ArbiterOnly

\* the fallback without its test that nothing was streamed yet
OnChainEndUnguarded(content) ==
    /\ TakesEvent(Event("on_chain_end", "-", content, NoOutput))
    /\ IF content # <<>> /\ content # full_response /\ ~suppressed_xml_echo
       THEN /\ full_response' = content
            /\ frames' = Append(frames, StreamFrame(content))
       ELSE UNCHANGED <<full_response, frames>>
    /\ UNCHANGED <<tool_depth, suppressed_xml_echo, suppressing_xml_echo,
                   last_xml_tool_output, dropped>>
    /\ ArbiterOnly

\* kind == "on_chain_end" whose output holds messages; content is the content
\* of the last one
OnChainEnd(content) ==
    /\ TakesEvent(Event("on_chain_end", "-", content, NoOutput))
    /\ IF /\ content # <<>>
          /\ content # full_response
          /\ ~suppressed_xml_echo
          /\ full_response = <<>>
       THEN /\ full_response' = content
            /\ frames' = Append(frames, StreamFrame(content))
       ELSE UNCHANGED <<full_response, frames>>
    /\ UNCHANGED <<tool_depth, suppressed_xml_echo, suppressing_xml_echo,
                   last_xml_tool_output, dropped>>
    /\ ArbiterOnly

\* the event stream is exhausted: the done frame
AgentEnd ==
    /\ pc = "streaming"
    /\ pc' = "waiting"
    /\ frames' = Append(frames, Frame("done", full_response, NoOutput))
    /\ lastEvent' = Event("end", "-", <<>>, NoOutput)
    /\ UNCHANGED <<tool_depth, full_response, suppressed_xml_echo,
                   suppressing_xml_echo, last_xml_tool_output, nEvents, dropped>>
    /\ ArbiterOnly

\* the handler of the agent's exception sending nothing
AgentRaiseSilent ==
    /\ pc = "streaming"
    /\ pc' = "waiting"
    /\ lastEvent' = Event("raise", "-", <<>>, NoOutput)
    /\ UNCHANGED <<tool_depth, full_response, suppressed_xml_echo,
                   suppressing_xml_echo, last_xml_tool_output, frames, nEvents,
                   dropped>>
    /\ ArbiterOnly

\* the agent's exception reaching the outer handler, which ends the endpoint
AgentRaiseClosing ==
    /\ pc = "streaming"
    /\ pc' = "closed"
    /\ frames' = Append(frames, Frame("error", <<"e">>, NoOutput))
    /\ lastEvent' = Event("raise", "-", <<>>, NoOutput)
    /\ UNCHANGED <<tool_depth, full_response, suppressed_xml_echo,
                   suppressing_xml_echo, last_xml_tool_output, nEvents, dropped>>
    /\ ArbiterOnly

\* the agent raises: the error frame, and the loop waits for the next message
AgentRaise ==
    /\ pc = "streaming"
    /\ pc' = "waiting"
    /\ frames' = Append(frames, Frame("error", <<"e">>, NoOutput))
    /\ lastEvent' = Event("raise", "-", <<>>, NoOutput)
    /\ UNCHANGED <<tool_depth, full_response, suppressed_xml_echo,
                   suppressing_xml_echo, last_xml_tool_output, nEvents, dropped>>
    /\ ArbiterOnly

NextArbiter ==
    \/ Receive
    \/ ReceiveOther
    \/ ReceiveInvalid
    \/ Disconnect
    \/ \E text \in ChunkTexts : OnChatModelStream(text)
    \/ \E tool_name \in ToolNames : OnToolStart(tool_name)
    \/ \E e \in EndedTools : OnToolEnd(e[1], e[2])
    \/ \E content \in FinalTexts : OnChainEnd(content)
    \/ AgentEnd
    \/ AgentRaise

SpecArbiter == InitArbiter /\ [][NextArbiter]_vars

\* the step handles a model text chunk
HandlesChunk == pc = "streaming" /\ lastEvent'.kind = "on_chat_model_stream"
                  /\ nEvents' = nEvents + 1

\* C9: a model text chunk that arrives while tool_depth > 0 sends no frame and
\* leaves the accumulated response unchanged; a non-empty chunk that arrives at
\* tool_depth = 0, nothing being recorded for echo suppression, is sent as one
\* stream frame and appended to the accumulated response.
C9_NestedChunksDropped ==
    [][HandlesChunk =>
          /\ tool_depth > 0 => (frames' = frames /\ full_response' = full_response)
          /\ (tool_depth = 0 /\ last_xml_tool_output = NoOutput
                /\ lastEvent'.text # <<>>) =>
                /\ frames' = Append(frames, StreamFrame(lastEvent'.text))
                /\ full_response' = full_response \o lastEvent'.text]_vars

\* a chunk was skipped inside a tool, the tool ended, and the next chunk was
\* streamed
C9_Witness ==
    /\ dropped = 1
    /\ nEvents = 4
    /\ lastEvent.kind = "on_chat_model_stream"
    /\ Len(frames) = 3
    /\ frames[1].type = "tool_call"
    /\ frames[2].type = "tool_result"
    /\ frames[3] = StreamFrame(<<"a">>)
    /\ full_response = <<"a">>

\* C10: once a tool output is recorded, the first top-level chunk that holds a
\* markup-start token is sent as the text before the token without its trailing
\* whitespace (no frame when that is empty), and from then on no chunk of the
\* turn sends a frame.
C10_EchoSuppressed ==
    [][/\ (HandlesChunk /\ tool_depth = 0 /\ last_xml_tool_output # NoOutput
             /\ ~suppressing_xml_echo /\ Search(lastEvent'.text) # 0) =>
             LET text == lastEvent'.text
                 prefix == rstrip(SubSeq(text, 1, Search(text) - 1))
             IN  /\ frames' = IF prefix = <<>> THEN frames
                              ELSE Append(frames, StreamFrame(prefix))
                 /\ suppressing_xml_echo'
       /\ (HandlesChunk /\ suppressing_xml_echo) => frames' = frames
       /\ (suppressing_xml_echo /\ pc = "streaming" /\ pc' = "streaming") =>
             suppressing_xml_echo']_vars

\* after a recorded tool output the chunk "a <a" was sent as "a" and the next
\* chunk was not sent
C10_Witness ==
    /\ nEvents = 3
    /\ suppressing_xml_echo
    /\ lastEvent = Event("on_chat_model_stream", "-", <<"a">>, NoOutput)
    /\ Len(frames) = 2
    /\ frames[1].type = "tool_result"
    /\ frames[2] = StreamFrame(<<"a">>)
    /\ full_response = <<"a">>

(***************************************************************************)
(* Claims on the frames of a turn                                          *)
(***************************************************************************)
Last(q) == q[Len(q)]
TerminalTypes == {"done", "error"}

\* the contents of the stream frames of fs, concatenated in order
RECURSIVE StreamText(_)
StreamText(fs) ==
    IF fs = <<>> THEN <<>>
    ELSE IF Head(fs).type = "stream" THEN Head(fs).content \o StreamText(Tail(fs))
    ELSE StreamText(Tail(fs))

\* the positions of the terminal frames of fs
Terminals(fs) == {i \in 1..Len(fs) : fs[i].type \in TerminalTypes}

\* the state a turn starts in
FreshTurn ==
    /\ tool_depth = 0
    /\ full_response = <<>>
    /\ ~suppressed_xml_echo
    /\ ~suppressing_xml_echo
    /\ last_xml_tool_output = NoOutput
    /\ frames = <<>>

\* C11: when a turn has completed without an agent error, its frames hold
\* exactly one done frame, that frame is the last one, and its content is the
\* concatenation of the contents of the stream frames of the turn.
C11_DoneCarriesStreamedText ==
    (pc = "waiting" /\ lastEvent.kind = "end") =>
        /\ frames # <<>>
        /\ Terminals(frames) = {Len(frames)}
        /\ Last(frames).type = "done"
        /\ Last(frames).content = StreamText(frames)

\* a turn that streamed two chunks around a tool call ended with done "aa"
C11_Witness ==
    /\ pc = "waiting" /\ lastEvent.kind = "end"
    /\ Len(frames) = 4
    /\ frames[1] = StreamFrame(<<"a">>)
    /\ frames[2].type = "tool_result"
    /\ frames[3] = StreamFrame(<<"a">>)
    /\ frames[4] = Frame("done", <<"a", "a">>, NoOutput)

\* C12: while a turn runs no terminal frame has been sent; when it is over
\* exactly one terminal frame has been sent, as the last frame, and after an
\* agent exception that frame is an error frame (so no done frame was sent).
C12_OneTerminalFrame ==
    /\ pc = "streaming" => Terminals(frames) = {}
    /\ (pc = "waiting" /\ lastEvent.kind \in {"end", "raise"}) =>
          /\ frames # <<>>
          /\ Terminals(frames) = {Len(frames)}
    /\ (pc = "waiting" /\ lastEvent.kind = "raise") => Last(frames).type = "error"

\* the agent raised after a stream frame and inside a tool: the turn ends with
\* the error frame
C12_Witness ==
    /\ pc = "waiting" /\ lastEvent.kind = "raise"
    /\ tool_depth = 1
    /\ Len(frames) = 3
    /\ frames[1].type = "stream"
    /\ frames[2].type = "tool_call"
    /\ frames[3].type = "error"

\* C13: after the agent raised the loop is waiting and can receive the next
\* message, and a received message always starts a turn in the fresh state.
C13_LoopSurvivesAgentError ==
    /\ lastEvent.kind = "raise" => (pc = "waiting" /\ ENABLED Receive)
    /\ lastEvent.kind = "message" => (pc = "streaming" /\ FreshTurn /\ nEvents = 0)

\* the agent raised inside a tool after a recorded payload; the loop waits and
\* the next message can be received
C13_Witness ==
    /\ lastEvent.kind = "raise"
    /\ pc = "waiting"
    /\ last_xml_tool_output # NoOutput
    /\ suppressing_xml_echo
    /\ ENABLED Receive

(***************************************************************************)
(* Several websocket connections.  Every connection runs its own          *)
(* websocket_endpoint coroutine; the coroutines share the event loop and  *)
(* nothing else.  A connection is reduced to its control flow: where the  *)
(* loop stands, and which frames it has read and sent.                    *)
(***************************************************************************)
MaxWire == 5

Connections == {"c1", "c2"}
NonTerminalTypes == {"stream", "tool_call", "tool_result"}

Conn(at, turn) == [pc |-> at, turn |-> turn]

\* one frame on a connection: dir "in" is read by the server, "out" is sent;
\* turn is the turn it belongs to, 0 for a frame outside every turn
Entry(c, turn, dir, type) == [conn |-> c, turn |-> turn, dir |-> dir, type |-> type]

Room == Len(wire) < MaxWire

\* await websocket.accept(), for every connection
InitConns ==
    /\ conns = [c \in Connections |-> Conn("waiting", 0)]
    /\ wire = <<>>
    /\ IdleSandbox /\ IdleStore /\ IdleRace /\ IdleArbiter /\ IdleClock /\ IdleGit /\ IdleWorkspace

ConnsOnly == UNCHANGED <<sandboxVars, storeVars, raceVars, arbiterVars, clockVars, workspaceVars, gitVars>>

\* mutation of ConnReceive: inbound frames are read while a turn is running
ConnReceiveAnytime(c) ==
    /\ conns[c].pc \in {"waiting", "streaming"}
    /\ Room
    /\ conns' = [conns EXCEPT ![c] = Conn("streaming", conns[c].turn + 1)]
    /\ wire' = Append(wire, Entry(c, conns[c].turn + 1, "in", "message"))
    /\ ConnsOnly

\* data = await websocket.receive_text(), type "message": a turn starts
ConnReceive(c) ==
    /\ conns[c].pc = "waiting"
    /\ Room
    /\ conns' = [conns EXCEPT ![c] = Conn("streaming", conns[c].turn + 1)]
    /\ wire' = Append(wire, Entry(c, conns[c].turn + 1, "in", "message"))
    /\ ConnsOnly

\* a frame of another type: continue
ConnReceiveOther(c) ==
    /\ conns[c].pc = "waiting"
    /\ Room
    /\ wire' = Append(wire, Entry(c, 0, "in", "other"))
    /\ UNCHANGED conns
    /\ ConnsOnly

\* a frame that is not JSON: the outer handler sends an error frame and the
\* endpoint returns
ConnReceiveInvalid(c) ==
    /\ conns[c].pc = "waiting"
    /\ Len(wire) + 1 < MaxWire
    /\ wire' = wire \o <<Entry(c, 0, "in", "invalid"), Entry(c, 0, "out", "error")>>
    /\ conns' = [conns EXCEPT ![c].pc = "closed"]
    /\ ConnsOnly

\* await websocket.send_text(...) inside the event loop of the turn
ConnSend(c) ==
    /\ conns[c].pc = "streaming"
    /\ Room
    /\ \E t \in NonTerminalTypes :
            wire' = Append(wire, Entry(c, conns[c].turn, "out", t))
    /\ UNCHANGED conns
    /\ ConnsOnly

\* the done frame, then back to receive_text
ConnDone(c) ==
    /\ conns[c].pc = "streaming"
    /\ Room
    /\ wire' = Append(wire, Entry(c, conns[c].turn, "out", "done"))
    /\ conns' = [conns EXCEPT ![c].pc = "waiting"]
    /\ ConnsOnly

\* except Exception: the error frame, then back to receive_text
ConnError(c) ==
    /\ conns[c].pc = "streaming"
    /\ Room
    /\ wire' = Append(wire, Entry(c, conns[c].turn, "out", "error"))
    /\ conns' = [conns EXCEPT ![c].pc = "waiting"]
    /\ ConnsOnly

\* mutation of ConnDisconnect: the proposals are dropped with the connection
ConnDisconnectClears(c) ==
    /\ conns[c].pc \in {"waiting", "streaming"}
    /\ conns' = [conns EXCEPT ![c].pc = "closed"]
    /\ proposals' = [i \in DOMAIN proposals |-> NoProposal]
    /\ UNCHANGED <<wire, disk, resp, fin>>
    /\ UNCHANGED <<sandboxVars, raceVars, arbiterVars, clockVars, workspaceVars, gitVars>>

\* the client is gone: receive_text or send_text raises and the endpoint returns
ConnDisconnect(c) ==
    /\ conns[c].pc \in {"waiting", "streaming"}
    /\ conns' = [conns EXCEPT ![c].pc = "closed"]
    /\ UNCHANGED wire
    /\ ConnsOnly

NextConns ==
    \/ \E c \in Connections : ConnReceive(c)
    \/ \E c \in Connections : ConnReceiveOther(c)
    \/ \E c \in Connections : ConnReceiveInvalid(c)
    \/ \E c \in Connections : ConnSend(c)
    \/ \E c \in Connections : ConnDone(c)
    \/ \E c \in Connections : ConnError(c)
    \/ \E c \in Connections : ConnDisconnect(c)

SpecConns == InitConns /\ [][NextConns]_vars

\* the positions of the wire that belong to connection c
Of(c) == {i \in 1..Len(wire) : wire[i].conn = c}
\* the positions of the frames sent in turn t of connection c
TurnFrames(c, t) == {i \in Of(c) : wire[i].turn = t /\ wire[i].dir = "out"}
\* the turns of connection c that were started
TurnsOf(c) == {wire[i].turn : i \in {j \in Of(c) : wire[j].type = "message"}}
\* the turns of connection c that have no terminal frame yet
InFlight(c) == {t \in TurnsOf(c) :
                    \A i \in TurnFrames(c, t) : wire[i].type \notin TerminalTypes}
\* the position on connection c just before position i, 0 when there is none
Before(c, i) == IF \E j \in Of(c) : j < i
                THEN CHOOSE j \in Of(c) : j < i /\ \A k \in Of(c) : k < i => k <= j
                ELSE 0

\* C14: on one connection an inbound frame is read only when no turn is
\* running (the frame before it on that connection is the terminal frame of
\* the last turn, or another inbound frame that started no turn, or there is
\* none); at most one turn is in flight; the frames of one turn are sent
\* without a frame of another turn of that connection between them, and the
\* terminal frame is the last of them.  Connections do not wait for each
\* other: whatever the other connections do, a waiting connection can read
\* and a streaming connection can send.
C14_TurnsSerialPerConnection ==
    \A c \in Connections :
        /\ \A i \in Of(c) :
              wire[i].dir = "in" =>
                  \/ Before(c, i) = 0
                  \/ wire[Before(c, i)].type \in TerminalTypes \cup {"other"}
        /\ Cardinality(InFlight(c)) <= 1
        /\ (conns[c].pc = "waiting" => InFlight(c) = {})
        /\ \A i \in Of(c), j \in Of(c) :
              (i < j /\ wire[i].turn > 0 /\ wire[j].turn > 0) =>
                  /\ wire[i].turn <= wire[j].turn
                  /\ (wire[i].type \in TerminalTypes => wire[i].turn < wire[j].turn)
        /\ (conns[c].pc = "waiting" /\ Room) => ENABLED ConnReceive(c)
        /\ (conns[c].pc = "streaming" /\ Room) => ENABLED ConnSend(c)

\* two turns of two connections run at once: the first connection ends its
\* turn and reads its next message while the turn of the second is running,
\* and the second goes on sending
C14_Witness ==
    /\ Len(wire) = 5
    /\ wire[1] = Entry("c1", 1, "in", "message")
    /\ wire[2] = Entry("c2", 1, "in", "message")
    /\ wire[3] = Entry("c1", 1, "out", "done")
    /\ wire[4] = Entry("c1", 2, "in", "message")
    /\ wire[5] = Entry("c2", 1, "out", "stream")
    /\ conns["c1"].pc = "streaming"
    /\ conns["c2"].pc = "streaming"

(***************************************************************************)
(* Expiry.  The clock advances in minutes; list_pending sweeps the entries *)
(* older than the expiry time before it answers.                           *)
(***************************************************************************)
ExpiryHours == 1
MinutesPerHour == 60
MaxMinutes == 62
MaxBirth == 1

ExpiryPaths == {RelPath(0, <<"a">>), RelPath(0, <<"d">>)}

\* the identifiers with an entry in the dictionary
Live(store) == {i \in DOMAIN store : store[i] # NoProposal}

\* ProposalStore._cleanup_expired at time t:
\*   cutoff = utcnow() - timedelta(hours=self._expiry_hours)
\*   delete every entry with created_at < cutoff
CleanupExpired(store, t) ==
    LET cutoff == t - ExpiryHours * MinutesPerHour
    IN  [i \in DOMAIN store |->
            IF store[i] # NoProposal /\ store[i].created_at < cutoff
            THEN NoProposal ELSE store[i]]

\* sorted(self._proposals.values(), key=created_at, reverse=True): the sort is
\* stable on the insertion order of the dictionary, which the model does not
\* keep, so entries of equal created_at come in either order
Listings(store) ==
    {q \in SeqsUpTo(Live(store), Cardinality(Live(store))) :
        /\ Len(q) = Cardinality(Live(store))
        /\ Range(q) = Live(store)
        /\ \A i \in 1..Len(q), j \in 1..Len(q) :
              i < j => store[q[i]].created_at >= store[q[j]].created_at}

\* GET /api/proposals/pending: ProposalStore.list_pending
ListPending ==
    LET kept == CleanupExpired(proposals, now)
    IN  /\ proposals' = kept
        /\ \E q \in Listings(kept) :
              resp' = [Response("list", "-", "200") EXCEPT
                          !.listed = q,
                          !.summaries = [k \in 1..Len(q) |->
                                            from_proposal(q[k], kept[q[k]])],
                          !.swept = Cardinality(Live(proposals) \ Live(kept))]
        /\ fin' = [i \in DOMAIN fin |-> IF kept[i] = NoProposal THEN NoFin ELSE fin[i]]
        /\ UNCHANGED disk
        /\ StoreOnly

\* DELETE /api/proposals/all: ProposalStore.clear
ClearAll ==
    /\ proposals' = [i \in DOMAIN proposals |-> NoProposal]
    /\ resp' = [Response("clear", "-", "200") EXCEPT
                   !.cleared = Cardinality(Live(proposals))]
    /\ fin' = [i \in DOMAIN fin |-> NoFin]
    /\ UNCHANGED disk
    /\ StoreOnly

\* a minute passes
Tick ==
    /\ now < MaxMinutes
    /\ now' = now + 1
    /\ UNCHANGED <<sandboxVars, storeVars, raceVars, arbiterVars, connVars,
                   workspaceVars, gitVars>>

\* write_file, called in the first minutes
ProposeEarly(path, content, id) ==
    /\ now <= MaxBirth
    /\ WriteFile(path, content, id)

NextExpiry ==
    \/ \E path \in ExpiryPaths, content \in WriteContents, id \in Ids :
          ProposeEarly(path, content, id)
    \/ \E id \in Ids : ApproveProposal(id)
    \/ \E id \in Ids : RejectProposal(id)
    \/ ClearAll
    \/ ListPending
    \/ Tick

SpecExpiry == Init /\ [][NextExpiry]_vars

ExpiryMinutes == ExpiryHours * MinutesPerHour
\* the age in minutes of the entry under i
Age(i) == now - proposals[i].created_at
\* the step is a list_pending request
ListingStep == resp'.op = "list" /\ now' = now
\* the step is a request that removes proposals by identifier or all at once
RemovalStep == resp'.op \in {"approve", "reject", "clear"} /\ now' = now

\* C15: a proposal nobody removed stays in the store until a list_pending
\* request sweeps it: a request made up to 59 minutes after its creation
\* returns it and keeps it, a request made 61 minutes or more after its
\* creation does not return it and leaves the store without it; no other
\* step than an explicit removal or such a sweep takes a proposal away.
C15_LivesOneHour ==
    [][\A i \in Ids :
          proposals[i] # NoProposal =>
              /\ (ListingStep /\ Age(i) <= ExpiryMinutes - 1) =>
                    (i \in Range(resp'.listed) /\ proposals'[i] = proposals[i])
              /\ (ListingStep /\ Age(i) >= ExpiryMinutes + 1) =>
                    (i \notin Range(resp'.listed) /\ proposals'[i] = NoProposal)
              /\ proposals'[i] # proposals[i] =>
                    (RemovalStep \/ (ListingStep /\ Age(i) >= ExpiryMinutes))]_vars

\* the sweep itself: what list_pending returns and keeps, by age
SweepAtOneHour ==
    [][\A i \in Ids :
          (ListingStep /\ proposals[i] # NoProposal) =>
              /\ Age(i) <= ExpiryMinutes - 1 =>
                    (i \in Range(resp'.listed) /\ proposals'[i] = proposals[i])
              /\ Age(i) >= ExpiryMinutes + 1 =>
                    (i \notin Range(resp'.listed) /\ proposals'[i] = NoProposal)]_vars

Proposes(path, id) ==
    \/ \E content \in WriteContents : WriteFile(path, content, id)
    \/ \E e \in EditArgs : EditFile(path, e[1], e[2], id)
    \/ DeleteFile(path, id)

\* C17: a write_file, edit_file or delete_file call on a path that does not
\* answer with an error puts one proposal into the store and changes no other
\* entry; the proposal holds one FileChange, for the path of the call, and
\* get on the identifier of the confirmation returns it.
C17_ToolInsertsOneProposal ==
    [][\A path \in ToolPaths, id \in Ids :
          (Proposes(path, id) /\ resp'.status # "error") =>
              /\ resp'.id = id
              /\ StoreGet(proposals', resp'.id) # NoProposal
              /\ Len(StoreGet(proposals', resp'.id).files) = 1
              /\ StoreGet(proposals', resp'.id).files[1].path = path
              /\ \A other \in Ids \ {id} : proposals'[other] = proposals[other]]_vars

\* edit_file on "a" was confirmed under id2 and the store holds, under id2,
\* the one update of "a"; the proposal under id1 is still there
C17_Witness ==
    /\ resp.op = "edit_file"
    /\ resp.status = "proposed"
    /\ resp.id = "id2"
    /\ StoreGet(proposals, "id2").files =
           <<FileChange(RelPath(0, <<"a">>), "update", P, Q)>>
    /\ StoreGet(proposals, "id1") # NoProposal

(***************************************************************************)
(* workspace/manager.py.  select_workspace is called by an async route     *)
(* handler and runs without an await, so no other handler runs before it   *)
(* returns or raises; the tools run on worker threads and read the root    *)
(* at any moment.  The directories outside the program are fixed.          *)
(***************************************************************************)
Unset == "None"

\* the paths a caller selects: what is there, what its .git entry is, and what
\* git answers in it
Storage == "/storage"
SelectPaths == {"/repo", "/fork", "/plain", "/link", "/locked", "/file", "/missing"}

\* Path(path).resolve(): "/link" is a symbolic link to "/repo"
ResolvePath(path) == IF path = "/link" THEN "/repo" ELSE path

\* resolved.exists() / resolved.is_dir()
PathKind(path) ==
    CASE path \in {"/storage", "/repo", "/fork", "/plain", "/locked"} -> "dir"
      [] path = "/file" -> "file"
      [] OTHER -> "missing"

\* stat of <root>/.git: a directory, nothing, or PermissionError (the root
\* cannot be searched)
GitEntry(root) ==
    CASE root \in {"/repo", "/fork"} -> "dir"
      [] root = "/locked" -> "denied"
      [] OTHER -> "none"

RemoteOf(root) == IF root = "/repo" THEN "origin-repo" ELSE "origin-fork"
BranchOf(root) == IF root = "/repo" THEN "main" ELSE "dev"

\* how a subprocess.run(["git", ...], timeout=5) ends: return code 0, another
\* return code, TimeoutExpired, or another exception (no git executable)
ProbeOutcomes == {"ok", "nonzero", "timeout", "error"}
ProbeFailures == {"timeout", "error"}

Manager(root, enabled, remote, branch) ==
    [root |-> root, git_enabled |-> enabled, git_remote |-> remote,
     git_branch |-> branch]

\* the call: pc is "idle" when none runs; status is the HTTP status of the last
\* answer; detect, remote and branch are how the probes of the call ended
Select(at, path, status, detect, remote, branch) ==
    [pc |-> at, path |-> path, status |-> status, detect |-> detect,
     remote |-> remote, branch |-> branch]

\* what a reader got: by names the reader
Seen(by, m) == [by |-> by, root |-> m.root, git_enabled |-> m.git_enabled,
                git_remote |-> m.git_remote, git_branch |-> m.git_branch]

\* WorkspaceManager.__init__ on the default storage directory
InitWorkspace ==
    /\ manager = Manager(Storage, FALSE, Unset, Unset)
    /\ sel = Select("idle", "-", "-", "-", "-", "-")
    /\ seen = Seen("none", manager)
    /\ IdleSandbox /\ IdleStore /\ IdleRace /\ IdleArbiter /\ IdleConns /\ IdleClock /\ IdleGit

WorkspaceOnly ==
    UNCHANGED <<sandboxVars, storeVars, raceVars, arbiterVars, connVars, clockVars,
                gitVars>>

\* mutation of SelectWorkspace: the path is not validated
SelectWorkspaceUnchecked(path) ==
    /\ sel.pc = "idle"
    /\ manager' = [manager EXCEPT !.root = ResolvePath(path)]
    /\ sel' = Select("detect", path, "-", "-", "-", "-")
    /\ UNCHANGED seen
    /\ WorkspaceOnly

\* POST /api/workspace/select, up to  self._workspace_root = resolved ;
\* a ValueError is answered with status 400
SelectWorkspace(path) ==
    LET resolved == ResolvePath(path)
    IN  /\ sel.pc = "idle"
        /\ IF PathKind(resolved) # "dir"
           THEN /\ sel' = Select("idle", path, "400", "-", "-", "-")
                /\ UNCHANGED manager
           ELSE /\ manager' = [manager EXCEPT !.root = resolved]
                /\ sel' = Select("detect", path, "-", "-", "-", "-")
        /\ UNCHANGED seen
        /\ WorkspaceOnly

\* _detect_git, up to the first subprocess.  git_dir.exists() on an entry that
\* cannot be examined raises PermissionError (pathlib before Python 3.13) or
\* answers False (from 3.13 on); the exception leaves select_workspace and is
\* answered with status 500
DetectGit ==
    /\ sel.pc = "detect"
    /\ \E raises \in IF GitEntry(manager.root) = "denied" THEN BOOLEAN ELSE {FALSE} :
          IF raises
          THEN /\ sel' = [sel EXCEPT !.pc = "idle", !.status = "500",
                                     !.detect = "denied"]
               /\ UNCHANGED manager
          ELSE /\ manager' = [manager EXCEPT
                                 !.git_enabled = GitEntry(manager.root) = "dir",
                                 !.git_remote = Unset,
                                 !.git_branch = Unset]
               /\ sel' = [sel EXCEPT !.pc = IF GitEntry(manager.root) = "dir"
                                            THEN "remote" ELSE "return",
                                     !.detect = GitEntry(manager.root)]
    /\ UNCHANGED seen
    /\ WorkspaceOnly

\* git remote get-url origin
ProbeRemote(outcome) ==
    /\ sel.pc = "remote"
    /\ manager' = IF outcome = "ok"
                  THEN [manager EXCEPT !.git_remote = RemoteOf(manager.root)]
                  ELSE manager
    /\ sel' = [sel EXCEPT !.pc = "branch", !.remote = outcome]
    /\ UNCHANGED seen
    /\ WorkspaceOnly

\* git branch --show-current
ProbeBranch(outcome) ==
    /\ sel.pc = "branch"
    /\ manager' = IF outcome = "ok"
                  THEN [manager EXCEPT !.git_branch = BranchOf(manager.root)]
                  ELSE manager
    /\ sel' = [sel EXCEPT !.pc = "return", !.branch = outcome]
    /\ UNCHANGED seen
    /\ WorkspaceOnly

\* return self.get_current()
SelectReturn ==
    /\ sel.pc = "return"
    /\ sel' = [sel EXCEPT !.pc = "idle", !.status = "200"]
    /\ seen' = Seen("select", manager)
    /\ UNCHANGED manager
    /\ WorkspaceOnly

\* GET /api/workspace/current
GetCurrent ==
    /\ sel.pc = "idle"
    /\ seen' = Seen("current", manager)
    /\ UNCHANGED <<manager, sel>>
    /\ WorkspaceOnly

\* GET /api/settings/git-status: the four accessors
GetGitStatus ==
    /\ sel.pc = "idle"
    /\ seen' = Seen("git_status", manager)
    /\ UNCHANGED <<manager, sel>>
    /\ WorkspaceOnly

\* get_workspace_root() of a tool, on its worker thread: the root only
ToolReadsRoot ==
    /\ seen' = Seen("tool", Manager(manager.root, FALSE, Unset, Unset))
    /\ UNCHANGED <<manager, sel>>
    /\ WorkspaceOnly

NextWorkspace ==
    \/ \E path \in SelectPaths : SelectWorkspace(path)
    \/ DetectGit
    \/ \E outcome \in ProbeOutcomes : ProbeRemote(outcome)
    \/ \E outcome \in ProbeOutcomes : ProbeBranch(outcome)
    \/ SelectReturn
    \/ GetCurrent
    \/ GetGitStatus
    \/ ToolReadsRoot

SpecWorkspace == InitWorkspace /\ [][NextWorkspace]_vars

\* the metadata _detect_git can compute for a root
Computed(root) ==
    CASE GitEntry(root) = "dir" ->
            {Manager(root, TRUE, r, b) : r \in {Unset, RemoteOf(root)},
                                         b \in {Unset, BranchOf(root)}}
      [] OTHER -> {Manager(root, FALSE, Unset, Unset)}

\* C18: a select_workspace call on a path that does not exist or is not a
\* directory is answered with status 400 (ValueError) and changes neither the
\* root nor the metadata; whenever the root changes, the new root is a
\* directory.
C18_InvalidPathRejected ==
    [][/\ \A path \in SelectPaths :
              (SelectWorkspace(path) /\ PathKind(ResolvePath(path)) # "dir") =>
                  (sel'.pc = "idle" /\ sel'.status = "400" /\ manager' = manager)
       /\ manager'.root # manager.root => PathKind(manager'.root) = "dir"]_vars

\* "/repo" was selected with both probes answering, and a later call on
\* "/file" got 400 and left the root and the metadata of "/repo"
C18_Witness ==
    /\ sel.pc = "idle"
    /\ sel.path = "/file"
    /\ sel.status = "400"
    /\ manager = Manager("/repo", TRUE, "origin-repo", "main")

\* C19: a select_workspace call during which a git command failed (it timed
\* out or could not be run) is answered with status 200 and leaves git_enabled
\* false.
C19_ProbeFailureDisables ==
    (/\ sel.pc = "idle"
     /\ sel.remote \in ProbeFailures \/ sel.branch \in ProbeFailures)
        => (sel.status = "200" /\ ~manager.git_enabled)

\* C20: what get_current, the answer of select_workspace and the accessors give
\* a reader is a root with metadata computed for that root.
C20_SnapshotsConsistent ==
    seen.by \in {"current", "select", "git_status"} =>
        Manager(seen.root, seen.git_enabled, seen.git_remote, seen.git_branch)
            \in Computed(seen.root)

(***************************************************************************)
(* approve_proposal with its request body (commit flag) and the active     *)
(* workspace: the paths are resolved against workspace.root and the git    *)
(* block runs when request.commit and workspace.git_enabled.               *)
(***************************************************************************)
\* the directory a workspace root names; "/storage" is the default workspace
RootSegs(root) == IF root = Storage THEN WsRoot ELSE <<"out">>

\* the iteration resolving the path against the default workspace, whatever
\* root is active
ApplyOneAtDefault(root, d, file_change) == ApplyOne(d, file_change)

\* one iteration of the loop over proposal.files, under the given root
ApplyOneAt(root, d, file_change) ==
    LET sp == SafePath(root, MainLinks, file_change.path)
        target_path == sp.path
        made == MkdirParents(d, Parent(target_path))
    IN  IF sp.kind # "ok" THEN [ok |-> FALSE, disk |-> d, wrote |-> FALSE]
        ELSE IF file_change.operation = "delete"
        THEN IF ~exists(d, target_path) THEN [ok |-> TRUE, disk |-> d, wrote |-> FALSE]
             ELSE IF is_dir(d, target_path) THEN [ok |-> FALSE, disk |-> d, wrote |-> FALSE]
             ELSE [ok |-> TRUE, disk |-> [d EXCEPT ![target_path] = Absent],
                   wrote |-> TRUE]
        ELSE IF ~made.ok THEN [ok |-> FALSE, disk |-> d, wrote |-> FALSE]
             ELSE IF file_change.after = None
             THEN [ok |-> TRUE, disk |-> made.disk, wrote |-> FALSE]
             ELSE IF is_dir(made.disk, target_path)
             THEN [ok |-> FALSE, disk |-> made.disk, wrote |-> FALSE]
             ELSE [ok |-> TRUE,
                   disk |-> [made.disk EXCEPT ![target_path] = File(file_change.after)],
                   wrote |-> TRUE]

RECURSIVE ApplyChangesAt(_, _, _, _, _)
ApplyChangesAt(root, d, files, i, files_affected) ==
    IF i > Len(files)
    THEN [failed |-> FALSE, disk |-> d, files_affected |-> files_affected,
          applied |-> Len(files)]
    ELSE LET r == ApplyOneAt(root, d, files[i])
         IN  IF ~r.ok
             THEN [failed |-> TRUE, disk |-> r.disk, files_affected |-> files_affected,
                   applied |-> i - 1]
             ELSE ApplyChangesAt(root, r.disk, files, i + 1,
                      IF r.wrote THEN Append(files_affected, files[i].path)
                                 ELSE files_affected)

\* git (history): commit is request.commit of the last approve request,
\* attempted says that its git block was entered, staged lists the paths whose
\* git add ran, committed says that git commit ran and returned 0, failed that
\* a command raised (timeout, no executable) or returned another code
GitRun(commit, attempted, staged, committed, failed) ==
    [commit |-> commit, attempted |-> attempted, staged |-> staged,
     committed |-> committed, failed |-> failed]
NoGit == GitRun(FALSE, FALSE, <<>>, FALSE, FALSE)

\* how git commit ends (as the probes of select_workspace: subprocess.run)
CommitOutcomes == ProbeOutcomes

ApproveFrame ==
    UNCHANGED <<sandboxVars, raceVars, arbiterVars, connVars, clockVars, workspaceVars>>

\* mutation of ApproveWithRequest: a git failure is answered with status 500
\* and the proposal stays
ApproveWithRequestStrict(proposal_id, commit, failAt, outcome) ==
    LET proposal == StoreGet(proposals, proposal_id)
        r == ApplyChangesAt(RootSegs(manager.root), disk, proposal.files, 1, <<>>)
        attempted == commit /\ manager.git_enabled
        failed == attempted /\ (failAt \in 1..Len(r.files_affected) \/ outcome # "ok")
    IN  /\ ApproveFrame
        /\ proposal # NoProposal
        /\ ~r.failed
        /\ disk' = r.disk
        /\ git' = GitRun(commit, attempted, <<>>, attempted /\ ~failed, failed)
        /\ resp' = [Response("approve", proposal_id, IF failed THEN "500" ELSE "200")
                        EXCEPT !.affected = r.files_affected,
                               !.written = r.files_affected,
                               !.applied = r.applied]
        /\ proposals' = IF failed THEN proposals ELSE StorePop(proposals, proposal_id)
        /\ UNCHANGED fin

\* POST /api/proposals/{proposal_id}/approve with body {commit: ...}.  failAt is
\* the git add that raises (0: none does), outcome is how git commit ends
ApproveWithRequest(proposal_id, commit, failAt, outcome) ==
    LET proposal == StoreGet(proposals, proposal_id)
        r == ApplyChangesAt(RootSegs(manager.root), disk, proposal.files, 1, <<>>)
        attempted == commit /\ manager.git_enabled
        stageRaised == attempted /\ failAt \in 1..Len(r.files_affected)
        staged == IF ~attempted THEN <<>>
                  ELSE IF stageRaised THEN SubSeq(r.files_affected, 1, failAt - 1)
                  ELSE r.files_affected
        committed == attempted /\ ~stageRaised /\ outcome = "ok"
        failed == attempted /\ (stageRaised \/ outcome # "ok")
    IN  /\ ApproveFrame
        /\ IF proposal = NoProposal
           THEN /\ resp' = Response("approve", proposal_id, "404")
                /\ git' = GitRun(commit, FALSE, <<>>, FALSE, FALSE)
                /\ UNCHANGED <<disk, proposals, fin>>
           ELSE /\ disk' = r.disk
                /\ IF r.failed
                   THEN /\ resp' = [Response("approve", proposal_id, "500") EXCEPT
                                       !.written = r.files_affected,
                                       !.applied = r.applied]
                        /\ fin' = [fin EXCEPT ![proposal_id] =
                                       @ \/ r.files_affected # <<>>]
                        /\ git' = GitRun(commit, FALSE, <<>>, FALSE, FALSE)
                        /\ UNCHANGED proposals
                   ELSE /\ git' = GitRun(commit, attempted, staged, committed, failed)
                        /\ proposals' = StorePop(proposals, proposal_id)
                        /\ resp' = [Response("approve", proposal_id, "200") EXCEPT
                                       !.affected = r.files_affected,
                                       !.written = r.files_affected,
                                       !.applied = r.applied]
                        /\ fin' = [fin EXCEPT ![proposal_id] = NoFin]

\* the manager after __init__ or a completed select_workspace, with or without
\* a repository in the workspace
InitCommit ==
    /\ InitStore
    /\ manager \in {Manager(Storage, e, Unset, Unset) : e \in BOOLEAN}
    /\ sel = Select("idle", "-", "-", "-", "-", "-")
    /\ seen = Seen("none", manager)
    /\ git = NoGit
    /\ IdleSandbox /\ IdleRace /\ IdleArbiter /\ IdleConns /\ IdleClock

\* the git add that raises: none, or the first
StageFailures == {0, 1}

NextCommit ==
    \/ \E path \in ToolPaths, content \in WriteContents, id \in Ids :
          WriteFile(path, content, id)
    \/ \E path \in ToolPaths, id \in Ids : DeleteFile(path, id)
    \/ \E id \in Ids, commit \in BOOLEAN, failAt \in StageFailures,
          outcome \in CommitOutcomes :
          ApproveWithRequest(id, commit, failAt, outcome)

SpecCommit == InitCommit /\ [][NextCommit]_vars

\* the step is an approve request that finds the proposal and applies it
\* without an I/O error
ApprovesCleanly ==
    /\ resp'.op = "approve"
    /\ StoreGet(proposals, resp'.id) # NoProposal
    /\ ~ApplyChangesAt(RootSegs(manager.root), disk,
                       StoreGet(proposals, resp'.id).files, 1, <<>>).failed

\* C21: an approve request that applies its proposal is answered with status
\* 200, leaves the disk as the changes made it and removes the proposal, also
\* when a git add or the git commit of the request raised or failed; git
\* commands are run only for a request with commit set, in a workspace with
\* git_enabled.
C21_CommitIsBestEffort ==
    [][resp'.op = "approve" =>
          /\ git'.attempted => (git'.commit /\ manager.git_enabled)
          /\ ApprovesCleanly =>
                /\ resp'.status = "200"
                /\ StoreGet(proposals', resp'.id) = NoProposal
                /\ disk' = ApplyChangesAt(RootSegs(manager.root), disk,
                               StoreGet(proposals, resp'.id).files, 1, <<>>).disk
                /\ git'.attempted = (git'.commit /\ manager.git_enabled)]_vars

\* the update of "a" was approved with commit set: git add ran, git commit
\* failed, the answer is 200, the file is written and the proposal is gone
C21_Witness ==
    /\ resp.op = "approve"
    /\ resp.status = "200"
    /\ git.attempted /\ git.failed /\ ~git.committed
    /\ git.staged = <<RelPath(0, <<"a">>)>>
    /\ NodeAt(disk, FileA) = File(Q)
    /\ StoreGet(proposals, resp.id) = NoProposal

(***************************************************************************)
(* Claims on finalize requests for proposals that are gone or too old      *)
(***************************************************************************)
\* the entry under i is older than the expiry time (list_pending would sweep it)
Expired(i) == proposals[i] # NoProposal /\ Age(i) > ExpiryMinutes
\* the step is an approve or reject request
FinalizeStep == resp'.op \in FinalizeOps /\ now' = now

\* C22: an approve or reject request on an identifier that has no proposal
\* (never created, already approved or rejected, swept) or whose proposal is
\* older than the expiry time is answered with NotFound, which callers take
\* as nothing to do, and changes neither the store nor the disk.
C22_StaleFinalizeIsNoOp ==
    [][\A i \in Ids :
          (FinalizeStep /\ resp'.id = i /\ (proposals[i] = NoProposal \/ Expired(i)))
              => (resp'.status = "404" /\ proposals' = proposals /\ disk' = disk)]_vars

\* the same for the identifiers without an entry only
GoneFinalizeIsNoOp ==
    [][\A i \in Ids :
          (FinalizeStep /\ resp'.id = i /\ proposals[i] = NoProposal)
              => (resp'.status = "404" /\ proposals' = proposals /\ disk' = disk)]_vars

\* C25: an approve request on a proposal older than the expiry time leaves
\* the disk as it is, also when no list_pending request has swept the store
\* since the proposal expired.
C25_ExpiredNeverApplied ==
    [][\A i \in Ids :
          (resp'.op = "approve" /\ now' = now /\ resp'.id = i /\ Expired(i))
              => disk' = disk]_vars

(***************************************************************************)
(* A turn with tool calls, and the client going away.  The tools of a turn *)
(* run between its on_tool_start and on_tool_end events and reach the      *)
(* process-wide store of get_proposal_store; the proposal routes serve any *)
(* client.                                                                 *)
(***************************************************************************)
TurnConns == {"c1"}

InitTurn ==
    /\ InitStore
    /\ conns = [c \in Connections |-> Conn("waiting", 0)]
    /\ wire = <<>>
    /\ IdleSandbox /\ IdleRace /\ IdleArbiter /\ IdleClock /\ IdleGit /\ IdleWorkspace

\* write_file called by the agent of the turn connection c runs
ConnToolWrite(c, path, content, id) ==
    /\ conns[c].pc = "streaming"
    /\ WriteFile(path, content, id)

\* delete_file called by the agent of the turn connection c runs
ConnToolDelete(c, path, id) ==
    /\ conns[c].pc = "streaming"
    /\ DeleteFile(path, id)

NextTurn ==
    \/ \E c \in TurnConns : ConnReceive(c)
    \/ \E c \in TurnConns : ConnSend(c)
    \/ \E c \in TurnConns, path \in ExpiryPaths, content \in WriteContents,
          id \in AppendIds :
          ConnToolWrite(c, path, content, id)
    \/ \E c \in TurnConns, path \in ExpiryPaths, id \in AppendIds :
          ConnToolDelete(c, path, id)
    \/ \E c \in TurnConns : ConnDone(c)
    \/ \E c \in TurnConns : ConnError(c)
    \/ \E c \in TurnConns : ConnDisconnect(c)
    \/ ListPending
    \/ \E id \in AppendIds : ApproveProposal(id)
    \/ \E id \in AppendIds : RejectProposal(id)

SpecTurn == InitTurn /\ [][NextTurn]_vars

\* the step is the end of connection c while its turn is running
DisconnectsInTurn(c) == conns[c].pc = "streaming" /\ conns'[c].pc = "closed"

\* C23: the step in which a client goes away during a turn leaves the store
\* and the disk as they are; after it, every proposal of the store is still
\* answered by list_pending and found by approve and reject.
C23_DisconnectKeepsProposals ==
    [][/\ \A c \in Connections :
              DisconnectsInTurn(c) => (proposals' = proposals /\ disk' = disk)
       /\ \A c \in Connections, i \in Ids :
              (conns[c].pc = "closed" /\ proposals[i] # NoProposal) =>
                  /\ (resp'.op = "list" /\ resp'.swept = 0) => i \in Range(resp'.listed)
                  /\ (resp'.op \in FinalizeOps /\ resp'.id = i) => resp'.status # "404"]_vars

\* the client went away during its first turn, after write_file had created a
\* proposal; a list_pending request made afterwards returned it
C23_Witness ==
    /\ conns["c1"].pc = "closed"
    /\ conns["c1"].turn = 1
    /\ Len(wire) >= 1
    /\ \A k \in 1..Len(wire) : wire[k].type \notin TerminalTypes
    /\ resp.op = "list"
    /\ resp.listed = <<"id1">>
    /\ StoreGet(proposals, "id1").files[1].operation = "update"

(***************************************************************************)
(* Stream frames and the tool depth                                        *)
(***************************************************************************)
\* the step of a turn sends a stream frame
SendsStream ==
    /\ pc = "streaming"
    /\ Len(frames') = Len(frames) + 1
    /\ frames'[Len(frames')].type = "stream"

\* C24: no stream frame is sent while tool_depth > 0, neither for a model text
\* chunk nor as the final-text fallback of an on_chain_end event that arrives
\* while a tool runs.
C24_NoStreamInsideTool ==
    [][SendsStream => tool_depth = 0]_vars

\* the part of C24 on model text chunks, which the code keeps
ChunkNeverStreamsInsideTool ==
    [][(SendsStream /\ lastEvent'.kind = "on_chat_model_stream") => tool_depth = 0]_vars


(***************************************************************************)
(* The text streamed after a recorded tool output                          *)
(***************************************************************************)
\* the tool_result frame of a tool whose output was recorded as
\* last_xml_tool_output
Records(frame) ==
    /\ frame.type = "tool_result"
    /\ frame.content[1] \in XML_TOOL_NAMES
    /\ frame.result.head = "<"
    /\ frame.result.len >= MinXmlLen

\* the frames of the turn sent after position k
FramesAfter(k) == SubSeq(frames, k + 1, Len(frames))

\* C26: once a tool output was recorded in a turn, the texts of the stream
\* frames sent later in the turn, concatenated, hold no markup-start token,
\* be the token split over two chunks or the text the final-text fallback.
C26_NoMarkupAfterPayload ==
    \A k \in 1..Len(frames) :
        Records(frames[k]) => Search(StreamText(FramesAfter(k))) = 0

\* the part of C26 the code keeps: no single stream frame sent for a model
\* text chunk after a recorded tool output holds a markup-start token
ChunkFramesHoldNoMarkup ==
    [][(SendsStream /\ lastEvent'.kind = "on_chat_model_stream"
          /\ last_xml_tool_output # NoOutput)
          => Search(frames'[Len(frames')].content) = 0]_vars

\* the fallback alone: the final text of an on_chain_end event is sent as it is
FallbackHoldsNoMarkup ==
    [][(SendsStream /\ lastEvent'.kind = "on_chain_end"
          /\ last_xml_tool_output # NoOutput)
          => Search(frames'[Len(frames')].content) = 0]_vars


(***************************************************************************)
(* Two proposals on one path                                               *)
(*                                                                         *)
(* write_file("a", "q") and write_file("a", "r") were called while a held  *)
(* "p": both proposals are pending, each with before = "p".               *)
(***************************************************************************)
R == <<"r">>
OverlapPath == RelPath(0, <<"a">>)
OverlapContents == {Q, R}

InitOverlap ==
    /\ IdleClock
    /\ disk = [n \in Nodes |-> CASE n = DirD -> Dir [] OTHER -> File(P)]
    /\ proposals =
          create_proposal(
              create_proposal([i \in Ids |-> NoProposal], "id1", OverlapPath,
                              "update", P, Q, <<>>),
              "id2", OverlapPath, "update", P, R, <<>>)
    /\ resp = Response("write_file", "id2", "proposed")
    /\ fin = [i \in Ids |-> NoFin]
    /\ IdleSandbox /\ IdleRace /\ IdleArbiter /\ IdleConns /\ IdleGit /\ IdleWorkspace

NextOverlap ==
    \/ \E content \in OverlapContents, id \in Ids : WriteFile(OverlapPath, content, id)
    \/ \E e \in EditArgs, id \in Ids : EditFile(OverlapPath, e[1], e[2], id)
    \/ \E id \in Ids : DeleteFile(OverlapPath, id)
    \/ \E id \in Ids : ApproveProposal(id)

SpecOverlap == InitOverlap /\ [][NextOverlap]_vars

\* the node a change of the workspace is applied to
TargetOf(file_change) == SafePath(WsRoot, MainLinks, file_change.path).path

\* C27: approve_proposal writes the after content of a change whatever the
\* file holds at that time; of two pending proposals on one path that are both
\* approved, the file holds the after content of the one approved last, in
\* either order.
C27_LastApprovalWins ==
    [][\A i \in Ids :
          (resp'.op = "approve" /\ resp'.id = i /\ proposals[i] # NoProposal) =>
              /\ resp'.status = "200"
              /\ \A k \in 1..Len(proposals[i].files) :
                    LET file_change == proposals[i].files[k]
                    IN  file_change.operation # "delete" =>
                            NodeAt(disk', TargetOf(file_change)) =
                                File(file_change.after)]_vars

\* both proposals are resolved, the one with "r" last, and a holds "r" although
\* the before content of that proposal was "p" and the other approval had
\* written "q"
C27_Witness ==
    /\ resp.op = "approve" /\ resp.id = "id2" /\ resp.status = "200"
    /\ resp.affected = <<OverlapPath>>
    /\ proposals = [i \in Ids |-> NoProposal]
    /\ NodeAt(disk, FileA) = File(R)


(***************************************************************************)
(* Proposals and a change of the workspace.  The tools resolve their path  *)
(* against the root that is active when they run, approve_proposal against *)
(* the root that is active when it runs.  In the other workspace a holds   *)
(* "r", so that edit_file finds its old_str in the default workspace only. *)
(***************************************************************************)
RerootPaths == {Storage, "/plain"}
RerootPath == RelPath(0, <<"a">>)

InitReroot ==
    /\ disk = [n \in Nodes |-> CASE n = DirD -> Dir
                                 [] n = OutA -> File(R)
                                 [] OTHER -> File(P)]
    /\ proposals = [i \in Ids |-> NoProposal]
    /\ resp = Response("none", "-", "-")
    /\ fin = [i \in Ids |-> NoFin]
    /\ manager = Manager(Storage, FALSE, Unset, Unset)
    /\ sel = Select("idle", "-", "-", "-", "-", "-")
    /\ seen = Seen("none", manager)
    /\ git = NoGit
    /\ IdleSandbox /\ IdleRace /\ IdleArbiter /\ IdleConns /\ IdleClock

\* edit_file on its worker thread, under the active root
RootedEditFile(path, old_str, new_str, id) ==
    LET target == SafePath(RootSegs(manager.root), MainLinks, path)
        content == NodeAt(disk, target.path).content
    IN  /\ IF \/ target.kind # "ok"
              \/ ~exists(disk, target.path)
              \/ ~is_file(disk, target.path)
              \/ count(content, old_str) = 0
              \/ count(content, old_str) > 1
           THEN /\ resp' = ToolError("edit_file")
                /\ UNCHANGED <<proposals, fin>>
           ELSE /\ proposals' = create_proposal(proposals, id, path, "update",
                                    content, replace(content, old_str, new_str),
                                    <<"Edit">> \o path.segs \o <<"replace text">>)
                /\ fin' = [fin EXCEPT ![id] = NoFin]
                /\ resp' = Response("edit_file", id, "proposed")
        /\ UNCHANGED disk
        /\ StoreOnly

\* delete_file on its worker thread, under the active root
RootedDeleteFile(path, id) ==
    LET target == SafePath(RootSegs(manager.root), MainLinks, path)
    IN  /\ IF \/ target.kind # "ok"
              \/ ~exists(disk, target.path)
              \/ ~is_file(disk, target.path)
           THEN /\ resp' = ToolError("delete_file")
                /\ UNCHANGED <<proposals, fin>>
           ELSE /\ proposals' = create_proposal(proposals, id, path, "delete",
                                    NodeAt(disk, target.path).content, None, <<>>)
                /\ fin' = [fin EXCEPT ![id] = NoFin]
                /\ resp' = Response("delete_file", id, "proposed")
        /\ UNCHANGED disk
        /\ StoreOnly

\* the approve route runs on the event loop, which select_workspace blocks
\* until it returns
ApproveBetweenSelects(proposal_id) ==
    /\ sel.pc = "idle"
    /\ ApproveWithRequest(proposal_id, FALSE, 0, "ok")

NextReroot ==
    \/ \E path \in RerootPaths : SelectWorkspace(path)
    \/ DetectGit
    \/ SelectReturn
    \/ \E e \in EditArgs, id \in Ids : RootedEditFile(RerootPath, e[1], e[2], id)
    \/ \E id \in Ids : RootedDeleteFile(RerootPath, id)
    \/ \E id \in Ids : ApproveBetweenSelects(id)

SpecReroot == InitReroot /\ [][NextReroot]_vars

\* C28: select_workspace leaves the proposal store as it is, and
\* approve_proposal resolves the paths of a proposal against the root that is
\* active when it runs: a proposal created under one root and approved after
\* another root was selected changes files under the other root only.
C28_ApproveUsesActiveRoot ==
    [][/\ (manager' # manager \/ sel' # sel) => proposals' = proposals
       /\ \A i \in Ids :
             (resp'.op = "approve" /\ resp'.id = i /\ proposals[i] # NoProposal) =>
                 /\ \A n \in Nodes :
                       disk'[n] # disk[n] => IsPrefix(RootSegs(manager.root), n)
                 /\ \A k \in 1..Len(proposals[i].files) :
                       LET file_change == proposals[i].files[k]
                           target == RootSegs(manager.root) \o file_change.path.segs
                       IN  NodeAt(disk', target) =
                               IF file_change.operation = "delete" THEN Absent
                               ELSE File(file_change.after)]_vars

\* the edit of a from "p" to "q", which only the default workspace could
\* propose, was approved after "/plain" was selected: a of "/plain" holds "q"
\* and a of the default workspace still holds "p"
C28_Witness ==
    /\ manager.root = "/plain"
    /\ sel.pc = "idle" /\ sel.status = "200"
    /\ resp.op = "approve" /\ resp.status = "200"
    /\ resp.affected = <<RerootPath>>
    /\ NodeAt(disk, OutA) = File(Q)
    /\ NodeAt(disk, FileA) = File(P)


(***************************************************************************)
(* approve_proposal in its steps, with add_file_to_proposal called from    *)
(* another thread.  The handler holds the ChangeProposal that store.get    *)
(* returned, which is the object the store holds under the identifier; no  *)
(* proposal is created in this specification, so proposals[id] is that     *)
(* object until the handler removes it.  The list iterator of the for loop *)
(* reads len(proposal.files) at each step and is finished once it found    *)
(* the list exhausted.                                                     *)
(***************************************************************************)
Approving(at, id, i, files_affected) ==
    [pc |-> at, id |-> id, i |-> i, files_affected |-> files_affected]
NotApproving == Approving("idle", "-", 0, <<>>)

\* the store after write_file("a", "q") and delete_file("d/b")
InitSteps ==
    /\ IdleClock
    /\ disk = [n \in Nodes |-> CASE n = DirD -> Dir [] OTHER -> File(P)]
    /\ proposals =
          create_proposal(
              create_proposal([i \in Ids |-> NoProposal], "id1",
                              RelPath(0, <<"a">>), "update", P, Q, <<>>),
              "id2", RelPath(0, <<"d", "b">>), "delete", P, None, <<>>)
    /\ resp = Response("delete_file", "id2", "proposed")
    /\ fin = [i \in Ids |-> NoFin]
    /\ callers = <<>>
    /\ approving = NotApproving
    /\ IdleSandbox /\ IdleArbiter /\ IdleConns /\ IdleGit /\ IdleWorkspace

StepFrame ==
    UNCHANGED <<sandboxVars, callers, arbiterVars, connVars, clockVars,
                workspaceVars, gitVars>>

\* proposal = store.get(proposal_id), and the 404 answer
ApproveGet(proposal_id) ==
    /\ approving.pc = "idle"
    /\ IF StoreGet(proposals, proposal_id) = NoProposal
       THEN /\ resp' = Response("approve", proposal_id, "404")
            /\ UNCHANGED approving
       ELSE /\ approving' = Approving("loop", proposal_id, 1, <<>>)
            /\ UNCHANGED resp
    /\ UNCHANGED <<disk, proposals, fin>>
    /\ StepFrame

\* for file_change in proposal.files: the next element is applied, or the
\* list is exhausted and the loop ends; an exception is answered with 500
ApproveIterate ==
    LET files == proposals[approving.id].files
        r == ApplyOne(disk, files[approving.i])
    IN  /\ approving.pc = "loop"
        /\ IF approving.i > Len(files)
           THEN /\ approving' = [approving EXCEPT !.pc = "remove"]
                /\ UNCHANGED <<disk, resp, fin>>
           ELSE /\ disk' = r.disk
                /\ IF r.ok
                   THEN /\ approving' =
                              [approving EXCEPT
                                  !.i = @ + 1,
                                  !.files_affected =
                                      IF r.wrote THEN Append(@, files[approving.i].path)
                                      ELSE @]
                        /\ UNCHANGED <<resp, fin>>
                   ELSE /\ approving' = NotApproving
                        /\ resp' = [Response("approve", approving.id, "500") EXCEPT
                                       !.written = approving.files_affected,
                                       !.applied = approving.i - 1]
                        /\ fin' = [fin EXCEPT ![approving.id] =
                                       @ \/ approving.files_affected # <<>>]
        /\ UNCHANGED proposals
        /\ StepFrame

\* store.remove(proposal_id) and the answer (request.commit is false)
ApproveRemove ==
    /\ approving.pc = "remove"
    /\ proposals' = StorePop(proposals, approving.id)
    /\ resp' = [Response("approve", approving.id, "200") EXCEPT
                   !.affected = approving.files_affected,
                   !.written = approving.files_affected,
                   !.applied = approving.i - 1]
    /\ fin' = [fin EXCEPT ![approving.id] = NoFin]
    /\ approving' = NotApproving
    /\ UNCHANGED disk
    /\ StepFrame

NextSteps ==
    \/ \E id \in Ids : ApproveGet(id)
    \/ ApproveIterate
    \/ ApproveRemove
    \/ \E id \in Ids, fc \in AppendChanges : AddFileToProposal(id, fc)

SpecSteps == InitSteps /\ [][NextSteps]_vars

\* C29: every FileChange for which add_file_to_proposal returned the proposal
\* is applied when that proposal is approved, however the call interleaves
\* with approve_proposal: an approve request that succeeds has applied as
\* many changes as the proposal it removes holds.
C29_AppendedChangesApplied ==
    [][\A i \in Ids :
          (resp'.op = "approve" /\ resp'.status = "200" /\ resp'.id = i
              /\ proposals[i] # NoProposal /\ proposals'[i] = NoProposal)
              => resp'.applied = Len(proposals[i].files)]_vars


(***************************************************************************)
(* The receive loop and the content of an inbound frame                    *)
(***************************************************************************)
\* the step ends the receive loop of the endpoint
EndsLoop == pc # "closed" /\ pc' = "closed"

\* C30: while the client stays connected the receive loop returns to waiting
\* after every inbound frame, whatever its content (text that is not JSON, a
\* type other than "message", a history entry without content); only a
\* disconnect ends the loop.
C30_OnlyDisconnectEndsLoop ==
    [][/\ EndsLoop => lastEvent'.kind = "disconnect"
       /\ (pc = "waiting" /\ lastEvent'.kind \in {"other", "invalid"}) =>
              pc' = "waiting"]_vars

\* the part of C30 the code keeps: a frame of another type is skipped
OtherTypeKeepsWaiting ==
    [][(pc = "waiting" /\ lastEvent'.kind = "other") => pc' = "waiting"]_vars


(***************************************************************************)
(* The state of the arbiter at the start of a turn                         *)
(***************************************************************************)
\* the step starts a turn
StartsTurn == pc = "waiting" /\ pc' = "streaming"

\* C31: at the start of every turn tool_depth is 0, suppressing_xml_echo and
\* suppressed_xml_echo are false, last_xml_tool_output is unset and
\* full_response is empty, however the turn before ended (done, error, tool
\* events left unbalanced).
C31_TurnStartsFresh ==
    [][StartsTurn =>
          /\ tool_depth' = 0
          /\ ~suppressing_xml_echo'
          /\ ~suppressed_xml_echo'
          /\ last_xml_tool_output' = NoOutput
          /\ full_response' = <<>>]_vars

\* a turn ended with an error inside a tool, after a tool output was recorded
\* and an echo was suppressed: the loop waits for the next message with that
\* state left behind
C31_Witness ==
    /\ pc = "waiting"
    /\ lastEvent.kind = "raise"
    /\ tool_depth = 1
    /\ suppressing_xml_echo /\ suppressed_xml_echo
    /\ last_xml_tool_output # NoOutput
    /\ full_response = <<"a">>
    /\ ENABLED Receive


(***************************************************************************)
(* The frames of tool events                                               *)
(***************************************************************************)
\* the step handles an agent event of the given kind
Handles(kind) ==
    pc = "streaming" /\ nEvents' = nEvents + 1 /\ lastEvent'.kind = kind

\* C32: every on_tool_start event sends exactly one tool_call frame and every
\* on_tool_end event exactly one tool_result frame, at any tool_depth and in
\* any suppression state, and the frames of a turn stay in the order of the
\* events that caused them: a step of the turn sends at most one frame, at the
\* end of those sent before.
C32_ToolFramesAlwaysSent ==
    [][/\ Handles("on_tool_start") =>
             frames' = Append(frames, Frame("tool_call", <<lastEvent'.name>>, NoOutput))
       /\ Handles("on_tool_end") =>
             frames' = Append(frames, Frame("tool_result", <<lastEvent'.name>>,
                                            lastEvent'.output))
       /\ pc = "streaming" =>
             \/ frames' = frames
             \/ /\ Len(frames') = Len(frames) + 1
                /\ SubSeq(frames', 1, Len(frames)) = frames]_vars

\* a tool started inside another tool while the echo was being suppressed:
\* both tool_call frames follow the tool_result frame
C32_Witness ==
    /\ pc = "streaming"
    /\ lastEvent.kind = "on_tool_start"
    /\ tool_depth = 2
    /\ suppressing_xml_echo
    /\ Len(frames) = 3
    /\ frames[1].type = "tool_result"
    /\ frames[2].type = "tool_call"
    /\ frames[3].type = "tool_call"


(***************************************************************************)
(* The final-text fallback                                                 *)
(***************************************************************************)
\* C33: an on_chain_end event sends its final text as one more stream frame
\* exactly when nothing was streamed so far, nothing was suppressed and the
\* final text is not empty; otherwise it sends nothing.  The done frame
\* carries the accumulated text, so a turn whose text was suppressed entirely
\* ends with a done frame of the empty string.
C33_FallbackOnlyWhenSilent ==
    [][/\ Handles("on_chain_end") =>
             IF full_response = <<>> /\ ~suppressed_xml_echo /\ lastEvent'.text # <<>>
             THEN /\ frames' = Append(frames, StreamFrame(lastEvent'.text))
                  /\ full_response' = lastEvent'.text
             ELSE frames' = frames /\ full_response' = full_response
       /\ (pc = "streaming" /\ lastEvent'.kind = "end") =>
             /\ frames' = Append(frames, Frame("done", full_response, NoOutput))
             /\ (suppressed_xml_echo /\ StreamText(frames) = <<>>) =>
                    Last(frames').content = <<>>]_vars

\* after a tool call that streamed nothing, the final text "a" was sent by
\* the fallback
C33_Witness ==
    /\ pc = "streaming"
    /\ lastEvent = Event("on_chain_end", "-", <<"a">>, NoOutput)
    /\ ~suppressed_xml_echo
    /\ Len(frames) = 3
    /\ frames[1].type = "tool_call"
    /\ frames[2].type = "tool_result"
    /\ frames[3] = StreamFrame(<<"a">>)
    /\ full_response = <<"a">>

\* the other case of C33: the whole text of the turn was suppressed and the
\* turn ended with done carrying the empty string
EntirelySuppressedTurn ==
    /\ pc = "waiting" /\ lastEvent.kind = "end"
    /\ suppressed_xml_echo
    /\ nEvents = 3
    /\ frames = << frames[1], Frame("done", <<>>, NoOutput) >>
    /\ frames[1].type = "tool_result"


(***************************************************************************)
(* Recording a tool output                                                 *)
(***************************************************************************)
\* C34: the output of an on_tool_end event is recorded as
\* last_xml_tool_output if and only if the tool is one of XML_TOOL_NAMES and
\* the output, without its leading whitespace, starts with "<" and is at least
\* 200 characters long; until an output is recorded in the turn, a top-level
\* chunk that holds markup is sent unchanged.
C34_RecordedIffLargeMarkup ==
    [][/\ Handles("on_tool_end") =>
             last_xml_tool_output' =
                 IF /\ lastEvent'.name \in XML_TOOL_NAMES
                    /\ lastEvent'.output.head = "<"
                    /\ lastEvent'.output.len >= 200
                 THEN lastEvent'.output
                 ELSE last_xml_tool_output
       /\ (Handles("on_chat_model_stream") /\ tool_depth = 0
             /\ last_xml_tool_output = NoOutput /\ Search(lastEvent'.text) # 0) =>
             /\ frames' = Append(frames, StreamFrame(lastEvent'.text))
             /\ ~suppressing_xml_echo' /\ ~suppressed_xml_echo']_vars

\* the chunk "</a" was sent unchanged, then an output of 199 characters after
\* one blank was not recorded, then one of 200 characters was
C34_Witness ==
    /\ pc = "streaming"
    /\ nEvents = 3
    /\ Len(frames) = 3
    /\ frames[1] = StreamFrame(<<"<", "/", "a">>)
    /\ frames[2] = Frame("tool_result", <<"generate_datamodel">>,
                         Output(1, "<", 199))
    /\ frames[3] = Frame("tool_result", <<"generate_datamodel">>,
                         Output(1, "<", 200))
    /\ last_xml_tool_output = Output(1, "<", 200)


(***************************************************************************)
(* edit_file and the occurrences of old_str                                *)
(*                                                                         *)
(* a holds "ppp" and d/b holds "p"; old_str is "p", "pp" or "q".           *)
(***************************************************************************)
PPP == <<"p", "p", "p">>
EditPaths == {RelPath(0, <<"a">>), RelPath(0, <<"d", "b">>)}
OldStrs == {<<"p">>, <<"p", "p">>, <<"q">>}

InitEdit ==
    /\ disk = [n \in Nodes |-> CASE n = DirD -> Dir
                                 [] n = FileA -> File(PPP)
                                 [] OTHER -> File(P)]
    /\ proposals = [i \in Ids |-> NoProposal]
    /\ resp = Response("none", "-", "-")
    /\ fin = [i \in Ids |-> NoFin]
    /\ IdleSandbox /\ IdleRace /\ IdleArbiter /\ IdleConns /\ IdleClock /\ IdleGit
    /\ IdleWorkspace

NextEdit ==
    \/ \E path \in EditPaths, old_str \in OldStrs, id \in Ids :
          EditFile(path, old_str, Q, id)
    \/ \E id \in Ids : ApproveProposal(id)
    \/ \E id \in Ids : RejectProposal(id)

SpecEdit == InitEdit /\ [][NextEdit]_vars

\* the positions of s at which sub occurs
Occurrences(s, sub) == {i \in 1..Len(s) : OccursAt(s, sub, i)}

\* the content of the file a tool path names
ContentAt(path) == NodeAt(disk, SafePath(WsRoot, MainLinks, path).path).content

\* C35: edit_file creates a proposal only when old_str occurs exactly once in
\* the file; with no occurrence, or with two or more, it answers with an
\* error and leaves the store and the file as they are.
C35_EditNeedsOneOccurrence ==
    [][\A path \in EditPaths, old_str \in OldStrs, id \in Ids :
          (EditFile(path, old_str, Q, id)
              /\ Cardinality(Occurrences(ContentAt(path), old_str)) # 1)
              => /\ resp'.status = "error"
                 /\ proposals' = proposals
                 /\ disk' = disk]_vars

\* what the code keeps: str.count counts the occurrences that do not overlap,
\* and edit_file answers with an error unless that number is 1
EditNeedsCountOfOne ==
    [][\A path \in EditPaths, old_str \in OldStrs, id \in Ids :
          EditFile(path, old_str, Q, id) =>
              IF count(ContentAt(path), old_str) = 1
              THEN /\ resp'.status = "proposed"
                   /\ proposals'[id].files =
                         <<FileChange(path, "update", ContentAt(path),
                                      replace(ContentAt(path), old_str, Q))>>
                   /\ disk' = disk
              ELSE /\ resp'.status = "error"
                   /\ proposals' = proposals
                   /\ disk' = disk]_vars


(***************************************************************************)
(* The store with appended changes, under the clock: write_file in the     *)
(* first minutes, add_file_to_proposal a little longer, list_pending at    *)
(* any time.  The texts have two lines.                                    *)
(***************************************************************************)
AB == <<"a", NL, "b">>
AC == <<"a", NL, "c">>
ListingPath == RelPath(0, <<"a">>)
ListingChanges ==
    { FileChange(RelPath(0, <<"d">>), "create", None, AC),
      FileChange(RelPath(0, <<"a">>), "update", AB, AC) }

WriteEarly(id) ==
    /\ now <= MaxBirth
    /\ WriteFile(ListingPath, AB, id)

AppendEarly(id, file_change) ==
    /\ now <= MaxBirth + 1
    /\ AddFileToProposal(id, file_change)

NextListing ==
    \/ \E id \in Ids : WriteEarly(id)
    \/ \E id \in Ids, file_change \in ListingChanges : AppendEarly(id, file_change)
    \/ ListPending
    \/ Tick

SpecListing == Init /\ [][NextListing]_vars

\* C36: add_file_to_proposal on an identifier without an entry returns None
\* and leaves the store as it is; on an identifier with an entry it appends
\* the change at the end of the files of that proposal and leaves its
\* timestamp and summary, its earlier changes and every other proposal as they
\* are.
C36_AppendTouchesOnlyTheEnd ==
    [][\A id \in Ids, file_change \in ListingChanges :
          AddFileToProposal(id, file_change) =>
              IF proposals[id] = NoProposal
              THEN resp'.status = "None" /\ proposals' = proposals
              ELSE /\ resp'.status = "proposal"
                   /\ proposals'[id].files = Append(proposals[id].files, file_change)
                   /\ proposals'[id].created_at = proposals[id].created_at
                   /\ proposals'[id].summary = proposals[id].summary
                   /\ \A other \in Ids \ {id} : proposals'[other] = proposals[other]]_vars

\* at minute 2 a change was appended to the proposal of minute 0, next to the
\* proposal of minute 1
C36_Witness ==
    /\ now = 2
    /\ resp.op = "add_file" /\ resp.id = "id1" /\ resp.status = "proposal"
    /\ proposals["id1"].created_at = 0
    /\ Len(proposals["id1"].files) = 2
    /\ proposals["id1"].files[1].operation = "update"
    /\ proposals["id1"].files[2].operation = "create"
    /\ proposals["id2"].created_at = 1
    /\ Len(proposals["id2"].files) = 1


\* the sums of the statistics of the first n changes of files
RECURSIVE AddedUpTo(_, _)
AddedUpTo(files, n) ==
    IF n = 0 THEN 0 ELSE AddedUpTo(files, n - 1) + lines_added(files[n])

RECURSIVE RemovedUpTo(_, _)
RemovedUpTo(files, n) ==
    IF n = 0 THEN 0 ELSE RemovedUpTo(files, n - 1) + lines_removed(files[n])

\* the identifiers whose proposals list_pending has to report at time t
Reportable(store, t) ==
    {i \in Ids : store[i] # NoProposal /\ t - store[i].created_at <= ExpiryHours * MinutesPerHour}

\* C37: list_pending returns exactly one summary for each proposal of the
\* store that has not expired, the newest first, and the file count and the
\* lines added and removed of a summary are the number of FileChanges of its
\* proposal and the sums of their statistics.
C37_ListingSummarises ==
    [][(resp'.op = "list" /\ now' = now) =>
          LET q == resp'.summaries
          IN  /\ {q[k].proposal_id : k \in 1..Len(q)} = Reportable(proposals, now)
              /\ Len(q) = Cardinality(Reportable(proposals, now))
              /\ \A k \in 1..Len(q), l \in 1..Len(q) :
                    k < l => q[k].created_at >= q[l].created_at
              /\ \A k \in 1..Len(q) :
                    LET proposal == proposals[q[k].proposal_id]
                    IN  /\ q[k].created_at = proposal.created_at
                        /\ q[k].file_count = Len(proposal.files)
                        /\ q[k].lines_added = AddedUpTo(proposal.files, Len(proposal.files))
                        /\ q[k].lines_removed =
                               RemovedUpTo(proposal.files, Len(proposal.files))]_vars

\* the listing of the proposal of minute 1 (one update: 2 lines added, 1
\* removed) before the proposal of minute 0 with its appended change (3 and 2)
C37_Witness ==
    /\ resp.op = "list"
    /\ resp.summaries =
          << [proposal_id |-> "id2", file_count |-> 1, lines_added |-> 2,
              lines_removed |-> 1, created_at |-> 1],
             [proposal_id |-> "id1", file_count |-> 2, lines_added |-> 3,
              lines_removed |-> 2, created_at |-> 0] >>

(***************************************************************************)
(* C38: the shape of the changes the tools record                          *)
(***************************************************************************)
\* the before and after of a change fit its operation
WellFormed(file_change) ==
    /\ file_change.operation = "create" => file_change.before = None
    /\ file_change.operation = "delete" => file_change.after = None
    /\ file_change.operation = "update" =>
          (file_change.before # None /\ file_change.after # None)

\* C38: in every state reached through write_file, edit_file, delete_file,
\* approve and reject, every proposal with an entry in the store holds at least
\* one FileChange, and every FileChange held is well formed: a create has no
\* before, a delete has no after, an update has both.
C38_ChangesWellFormed ==
    \A id \in Live(proposals) :
        /\ Len(proposals[id].files) >= 1
        /\ \A k \in 1..Len(proposals[id].files) :
              WellFormed(proposals[id].files[k])

\* write_file has just proposed the creation of a new file while the other
\* identifier holds a change to a file that exists
C38_Witness ==
    /\ resp.op = "write_file"
    /\ resp.status = "proposed"
    /\ \E i, j \in Live(proposals) :
          /\ i = resp.id
          /\ proposals[i].files[1].operation = "create"
          /\ proposals[i].files[1].before = None
          /\ proposals[j].files[1].operation \in {"update", "delete"}

(***************************************************************************)
(* SpecStats: the line statistics of a FileChange                          *)
(*                                                                         *)
(* The file a holds any of the texts of StatTexts and d/b does not exist;  *)
(* write_file proposes any of the texts for either path, delete_file       *)
(* proposes the deletion of a, and list_pending computes the statistics.   *)
(***************************************************************************)
MaxText == 3
BA == <<"b", NL, "a">>
StatTexts == SeqsUpTo({"a", NL}, MaxText) \cup {AB, AC, BA}
StatPaths == {RelPath(0, <<"a">>), RelPath(0, <<"d", "b">>)}

InitStats ==
    /\ \E text \in StatTexts :
          disk = [n \in Nodes |-> CASE n = FileA -> File(text)
                                    [] n = DirD -> Dir
                                    [] OTHER -> Absent]
    /\ proposals = [i \in Ids |-> NoProposal]
    /\ resp = Response("none", "-", "-")
    /\ fin = [i \in Ids |-> NoFin]
    /\ IdleSandbox /\ IdleRace /\ IdleArbiter /\ IdleConns /\ IdleClock /\ IdleGit
    /\ IdleWorkspace

NextStats ==
    \/ \E path \in StatPaths, content \in StatTexts, id \in AppendIds :
          WriteFile(path, content, id)
    \/ \E id \in AppendIds : DeleteFile(RelPath(0, <<"a">>), id)
    \/ ListPending

SpecStats == InitStats /\ [][NextStats]_vars

\* the positions of s at which a line starts: the first one and every one
\* after a line boundary
Starts(s) == {i \in 1..Len(s) : i = 1 \/ s[i - 1] = NL}

\* the line of s that starts at position i, up to its boundary
LineAt(s, i) ==
    LET ends == {j \in i..(Len(s) + 1) : j = Len(s) + 1 \/ s[j] = NL}
        e == CHOOSE j \in ends : \A l \in ends : j <= l
    IN  SubSeq(s, i, e - 1)

\* the set of lines of s
LineSet(s) == {LineAt(s, i) : i \in Starts(s)}

\* the number of lines of s that are not lines of t
NotIn(s, t) == Cardinality({i \in Starts(s) : LineAt(s, i) \notin LineSet(t)})

\* the one change of a listed proposal
ListedChange(summary) == proposals'[summary.proposal_id].files[1]

\* C39: the statistics list_pending reports for a change: for a create,
\* lines_added is the number of lines of after and lines_removed is 0; for a
\* delete, lines_removed is the number of lines of before and lines_added is
\* 0; for an update, lines_added counts the lines of after that are not among
\* the lines of before and lines_removed counts the lines of before that are
\* not among the lines of after; before "a\nb" and after "a\nc" give 1 and 1.
C39_LineStatistics ==
    [][ListingStep =>
          \A k \in 1..Len(resp'.summaries) :
              LET summary == resp'.summaries[k]
                  c == ListedChange(summary)
              IN  /\ c.operation = "create" =>
                        /\ summary.lines_added = Cardinality(Starts(c.after))
                        /\ summary.lines_removed = 0
                  /\ c.operation = "delete" =>
                        /\ summary.lines_removed = Cardinality(Starts(c.before))
                        /\ summary.lines_added = 0
                  /\ c.operation = "update" =>
                        /\ summary.lines_added = NotIn(c.after, c.before)
                        /\ summary.lines_removed = NotIn(c.before, c.after)
                  /\ (c.operation = "update" /\ c.before = AB /\ c.after = AC) =>
                        /\ summary.lines_added = 1
                        /\ summary.lines_removed = 1]_vars

\* the update of "a\nb" to "a\nc" has been listed with 1 added and 1 removed
C39_Witness ==
    /\ resp.op = "list"
    /\ Len(resp.summaries) = 1
    /\ resp.summaries[1].lines_added = 1
    /\ resp.summaries[1].lines_removed = 1
    /\ proposals[resp.summaries[1].proposal_id].files
          = <<FileChange(RelPath(0, <<"a">>), "update", AB, AC)>>

\* the lines of after are the lines of before in some order: every line occurs
\* as often in the one as in the other
Reordered(before, after) ==
    \A line \in LineSet(before) \cup LineSet(after) :
        Cardinality({i \in Starts(before) : LineAt(before, i) = line})
            = Cardinality({i \in Starts(after) : LineAt(after, i) = line})

\* C40 as claimed: there is an update whose after is a reordering of the lines
\* of before and for which the summary of a proposal of it shows lines_added
\* or lines_removed greater than 0.
C40_ReorderingOvercounts ==
    \E before, after \in StatTexts :
        /\ Reordered(before, after)
        /\ LET c == FileChange(RelPath(0, <<"a">>), "update", before, after)
               summary == from_proposal("id1", ChangeProposal(<<c>>, <<>>))
           IN  summary.lines_added > 0 \/ summary.lines_removed > 0

\* C40 as amended: for every update whose after is a reordering of the lines
\* of before, list_pending reports 0 lines added and 0 lines removed.
C40_ReorderingCountsNothing ==
    [][ListingStep =>
          \A k \in 1..Len(resp'.summaries) :
              LET summary == resp'.summaries[k]
                  c == ListedChange(summary)
              IN  (c.operation = "update" /\ Reordered(c.before, c.after)) =>
                      (summary.lines_added = 0 /\ summary.lines_removed = 0)]_vars

\* the update of "a\nb" to "b\na" has been listed with nothing added or removed
C40_Witness ==
    /\ resp.op = "list"
    /\ Len(resp.summaries) = 1
    /\ resp.summaries[1].lines_added = 0
    /\ resp.summaries[1].lines_removed = 0
    /\ proposals[resp.summaries[1].proposal_id].files
          = <<FileChange(RelPath(0, <<"a">>), "update", AB, BA)>>

====
